---------------------------- MODULE Spec2Model ----------------------------
(***************************************************************************)
(* A model of the moment-constrained GW engine of momentGW:                *)
(*   - the quasiparticle self-consistent driver and its static potential   *)
(*     (momentGW/qsgw.py),                                                 *)
(*   - the periodic solver entry point and its quasiparticle energies      *)
(*     (momentGW/pbc/base.py),                                             *)
(*   - the periodic response and self-energy moment builders               *)
(*     (momentGW/pbc/tda.py),                                              *)
(*   - the periodic integral container (momentGW/pbc/ints.py).             *)
(*                                                                         *)
(* Numerical data produced by external collaborators (the inner solver,    *)
(* the eigensolver, the density-fitting provider) is not computed: every   *)
(* array is represented by the stamp of the step that produced it, and     *)
(* every comparison of such data with a threshold is a nondeterministic    *)
(* boolean.  Control flow, bookkeeping and data flow follow the source.    *)
(***************************************************************************)
EXTENDS Integers, Sequences, FiniteSets, TLC

(***************************************************************************)
(* Bounds of the model.                                                    *)
(***************************************************************************)
\* largest value of the option max_cycle that is explored
MaxCycle == 2
\* largest value of the option max_cycle_qp that is explored
MaxCycleQP == 2
\* number of k-points of the mesh
NKpts == 3
\* largest value of nmom_max that is explored
MaxMom == 1
\* number of orbitals: the moment matrices are NMO x NMO
NMO == 2
\* attribute naux_full: the size of the auxiliary basis
NauxFull == 2
\* largest number of MPI workers of a run
MaxWorkers == 3
\* number of poles of the self-energy handed to build_static_potential
NPoles == 2

VARIABLES
    \* ---- the solver object and the call in progress
    pc,              \* position of the call in progress
    entry,           \* entry point that was called
    args,            \* optional arguments of the call: "None" or "given"
    polarizability,  \* option gw.polarizability
    max_cycle,       \* option gw.max_cycle
    max_cycle_qp,    \* option gw.max_cycle_qp
    conv_logical,    \* option gw.conv_logical: "all" or "any"
    \* ---- locals of kernel() in qsgw.py
    integrals,       \* "None", "arg" (the caller's) or "ao2mo" (built)
    mo_energy,       \* << >> (unbound) or the stamp <<cycle, qp_cycle>> of
                     \* the diagonalization that produced it (<<0, 0>>: input)
    mo_energy_prev,
    mo_coeff,
    dm,
    diis,            \* static-potential DIIS: [created, hist]
    diis_qp,         \* inner-loop DIIS: [created, hist]
    subgw,           \* the inner solver: [constructed, mo_energy, mo_coeff, calls]
    se,              \* index of the solver call that produced se and gf (0: none)
    th,              \* << >> or the origin <<"se", n>> of the hole/particle moments
    th_prev,
    cycle,
    qp_cycle,
    conv,
    conv_qp,
    \* ---- observable outcome
    error,           \* "None" or the exception that left the call
    ret,             \* << >> or the tuple returned to the caller
    self_attrs,      \* attributes stored on the solver object by kernel
    \* ---- history (not program state)
    phases,          \* phases of the state machine entered so far
    signals,         \* arguments and result of the last check_convergence
    held,            \* per local of the inner loop: "same" if all workers
                     \* hold one value of it, "own" if each worker holds
                     \* what it computed itself, "unbound" before
    \* ---- TDA.build_se_moments in pbc/tda.py
    se_pc,           \* position of the call in progress
    diagonal_se,     \* option gw.diagonal_se
    nmom_max,        \* attribute nmom_max
    moments_occ,     \* local array moments_occ[k][n], a matrix per slot
    moments_vir,     \* local array moments_vir[k][n]
    herm_k,          \* loop variable k of the Hermiticity loop
    herm_n,          \* loop variable n of the Hermiticity loop
    se_error,        \* "None" or the exception that left the call
    se_ret,          \* what the call returned
    built,           \* history: the slot read last, as the convolution left it
    \* ---- the KIntegrals object of pbc/ints.py, as one MPI worker sees it
    i_pc,            \* position of the call in progress, "idle" between calls
    i_op,            \* the operation called last and its arguments
    store_full,      \* attribute store_full
    compression,     \* the parsed attribute compression: a set of block keys
    compression_tol, \* attribute compression_tol
    mpi_size,        \* mpi_helper.size
    mpi_rank,        \* mpi_helper.rank
    self_rot,        \* attribute _rot: [set, at]; set = FALSE is None
    self_blocks,     \* attribute _blocks: the families Lpq, Lpx, Lia, Lai
    prod,            \* get_compression_metric: per q, the blocks accumulated
    rot,             \* get_compression_metric: the local array rot
    loop_q,          \* the loop variable of the loop over q in progress
    loop_i,          \* transform: position of ki in this worker's share
    q,               \* transform: the variable q inside the loop over ki
    Lpq,             \* transform: the local dictionaries
    Lpx,
    Lia,
    Lai,
    i_error,         \* "None" or the exception that left the last call
    i_ret,           \* what the last call returned
    \* ---- history (not program state)
    eigs,            \* per q, the eigenvalues numpy.linalg.eigh gave the root
    blocks_before,   \* _blocks when the call in progress was made
    seen,            \* low-dimensional chunks read and used by the call
    \* ---- get_j and get_k of pbc/ints.py on all workers of one run
    w_size,          \* mpi_helper.size
    w_op,            \* the builder called and its path: [name, stored]
    w_pc,            \* per worker, its position in the call
    w_kk,            \* per worker, the loop variable kk of get_k (line 360)
    w_buf,           \* per worker, the local array buf
    w_out,           \* per worker, the local array vj or vk
    \* ---- TDA.build_dd_moments in pbc/tda.py
    dd_pc,           \* position of the call: the loop in progress
    dd_in,           \* the system: which integrals and energies are given
    dd_first,        \* the pass that an order starts with (line 101)
    dd_n,            \* loop variable i, the order being built
    dd_q,            \* loop variable q
    dd_ka,           \* loop variable ka of the loop over triples
    dd_todo,         \* the values of kb that the loop has yet to yield
    dd_moments,      \* local array moments[q][kb][n]
    dd_applied,      \* history: the tuples handled so far for order dd_n
                     \* (those of the last order, once the call is over)
    \* ---- qsGW.build_static_potential in qsgw.py
    sp_pc,           \* position of the call
    sp_in,           \* the arguments mo_energy and se, and the option srg
    sp_branch,       \* history: the regularization that line 298 chose
    se_qp,           \* local array se_qp
    \* ---- the occupied and virtual orbitals of W, pbc/ints.py and pbc/tda.py
    mo_occ_w,        \* per k-point, the occupation of every orbital
    sel_metric,      \* the columns get_compression_metric takes as i and a
    sel_transform,   \* the columns transform takes for Lia and Lai
    sel_denominator, \* the energies build_dd_moments takes as i and a
    \* ---- BaseKGW._gf_to_mo_energy in pbc/base.py
    ge_pc,           \* position of the call
    ge_gf,           \* the argument gf: the couplings of its poles
    ge_k,            \* loop variable k
    ge_i,            \* loop variable i
    ge_mo_energy,    \* local array mo_energy
    ge_check,        \* local set check
    ge_warned        \* history: the k-points a warning was logged for

kernelLocals == <<integrals, mo_energy, mo_energy_prev, mo_coeff, dm, diis,
                  diis_qp, subgw, se, th, th_prev, cycle, qp_cycle, conv,
                  conv_qp>>
options == <<polarizability, max_cycle, max_cycle_qp, conv_logical>>
outcome == <<error, ret, self_attrs>>
qsvars == <<pc, entry, args, options, kernelLocals, outcome, phases, signals,
            held>>
tdavars == <<se_pc, diagonal_se, nmom_max, moments_occ, moments_vir, herm_k,
             herm_n, se_error, se_ret, built>>
intsConfig == <<store_full, compression, compression_tol, mpi_size, mpi_rank>>
metricLocals == <<prod, rot>>
transformLocals == <<loop_i, q, Lpq, Lpx, Lia, Lai>>
intsvars == <<i_pc, i_op, intsConfig, self_rot, self_blocks, metricLocals,
              loop_q, transformLocals, i_error, i_ret, eigs, blocks_before,
              seen>>
jkvars == <<w_size, w_op, w_pc, w_kk, w_buf, w_out>>
ddvars == <<dd_pc, dd_in, dd_first, dd_n, dd_q, dd_ka, dd_todo, dd_moments,
            dd_applied>>
spvars == <<sp_pc, sp_in, sp_branch, se_qp>>
occvars == <<mo_occ_w, sel_metric, sel_transform, sel_denominator>>
gevars == <<ge_pc, ge_gf, ge_k, ge_i, ge_mo_energy, ge_check, ge_warned>>
\* the state of the components a solver call does not touch
elsewhere == <<tdavars, intsvars, jkvars, ddvars, spvars, occvars, gevars>>
\* the state a call of build_se_moments does not touch
notTDA == <<qsvars, intsvars, jkvars, ddvars, spvars, occvars, gevars>>
\* the state a call on the integral container does not touch
notInts == <<qsvars, tdavars, jkvars, ddvars, spvars, occvars, gevars>>
\* the state a call of get_j or get_k on all workers does not touch
notBuilders == <<qsvars, tdavars, intsvars, ddvars, spvars, occvars, gevars>>
\* the state a call of build_dd_moments does not touch, nmom_max apart
notDD == <<qsvars, intsvars, jkvars, spvars, occvars, gevars>>
\* the state a call of build_static_potential does not touch
notStatic == <<qsvars, tdavars, intsvars, jkvars, ddvars, occvars, gevars>>
\* the state the selection of the occupied orbitals does not touch
notOcc == <<qsvars, tdavars, intsvars, jkvars, ddvars, spvars, gevars>>
\* the state a call of _gf_to_mo_energy does not touch
notGf == <<qsvars, tdavars, intsvars, jkvars, ddvars, spvars, occvars>>

None == "None"
Opt == {"None", "given"}
Unbound == << >>

(***************************************************************************)
(* Helpers                                                                 *)
(***************************************************************************)
Last(s) == s[Len(s)]

\* The phase history: entering the phase one is in adds nothing.
Enter(ph) == IF Len(phases) > 0 /\ Last(phases) = ph THEN phases
             ELSE Append(phases, ph)

\* conv_logical is a callable over an iterable of booleans; the two values
\* the documentation names are the builtins all and any.
ApplyLogical(f, bs) ==
    IF f = "all" THEN \A i \in 1..Len(bs) : bs[i]
                 ELSE \E i \in 1..Len(bs) : bs[i]

\* evGW.check_convergence(mo_energy, mo_energy_prev, th, th_prev, tp, tp_prev):
\* its inputs are the orbital energies and the moments only.  e_ok and m_ok
\* are the thresholded changes of these (conv_tol, conv_tol_moms).
check_convergence(e_ok, m_ok) == ApplyLogical(conv_logical, <<e_ok, m_ok>>)

\* The change in the orbital energies is zero when no diagonalization took
\* place since mo_energy_prev was taken, so that signal is then satisfied.
EnergySignals == IF mo_energy = mo_energy_prev THEN {TRUE} ELSE BOOLEAN

\* The moments come from a new solve every cycle; they are unchanged for
\* certain when the solve was at unchanged orbitals.
MomentSignals == IF mo_energy = mo_energy_prev THEN {TRUE} ELSE BOOLEAN

NoDIIS == [created |-> FALSE, hist |-> << >>]
\* (mutation) a history that exists already is kept when the object is made
NewDIIS_Kept == [created |-> TRUE, hist |-> diis_qp.hist]

\* util.DIIS(): a new object with an empty history
NewDIIS == [created |-> TRUE, hist |-> << >>]
DIISUpdate(d, x) == [d EXCEPT !.hist = Append(@, x)]

NoSolver == [constructed |-> FALSE, mo_energy |-> Unbound,
             mo_coeff |-> Unbound, calls |-> 0]
NoSignals == [called |-> FALSE, cycle |-> 0, e_ok |-> FALSE, m_ok |-> FALSE,
              qp_ok |-> FALSE, result |-> FALSE]
NoneHeld == [fock_eff |-> "unbound", u |-> "unbound", mo_energy |-> "unbound",
             mo_coeff |-> "unbound", dm |-> "unbound"]
NoAttrs == [set |-> FALSE, converged |-> FALSE, gf |-> 0, se |-> 0,
            qp_energy |-> Unbound]

(***************************************************************************)
(* Initial state: a solver object with its options, no call in progress.   *)
(***************************************************************************)
InitQS ==
    /\ pc = "idle"
    /\ entry = None
    /\ args = [mo_energy |-> None, mo_coeff |-> None, moments |-> None,
               integrals |-> None]
    /\ polarizability \in {"drpa", "drpa-exact"}
    /\ max_cycle \in 0..MaxCycle
    /\ max_cycle_qp \in 0..MaxCycleQP
    /\ conv_logical \in {"all", "any"}
    /\ integrals = None
    /\ mo_energy = Unbound
    /\ mo_energy_prev = Unbound
    /\ mo_coeff = Unbound
    /\ dm = Unbound
    /\ diis = NoDIIS
    /\ diis_qp = NoDIIS
    /\ subgw = NoSolver
    /\ se = 0
    /\ th = Unbound
    /\ th_prev = Unbound
    /\ cycle = 0
    /\ qp_cycle = 0
    /\ conv = FALSE
    /\ conv_qp = FALSE
    /\ error = None
    /\ ret = << >>
    /\ self_attrs = NoAttrs
    /\ phases = << >>
    /\ signals = NoSignals
    /\ held = NoneHeld

(***************************************************************************)
(* qsGW.kernel (the method) and kernel (the function) of qsgw.py           *)
(***************************************************************************)

\* An exception leaves the call: nothing is returned.
RaiseIn(e, ph) ==
    /\ error' = e
    /\ pc' = "failed"
    /\ phases' = Append(Enter(ph), "FAILED")
    /\ UNCHANGED <<ret, self_attrs>>

Raise(e) == RaiseIn(e, Last(phases))

\* qsGW.kernel, up to the call of kernel(): the defaults of mo_coeff and
\* mo_energy, dump_flags and logging.  moments is not forwarded.
QsGWKernelEnter ==
    /\ pc = "idle"
    /\ \E a \in [mo_energy : Opt, mo_coeff : Opt, moments : Opt,
                 integrals : Opt] : args' = a
    /\ entry' = "qsGW.kernel"
    /\ pc' = "k_guard"
    /\ phases' = Enter("INIT")
    /\ UNCHANGED <<options, elsewhere, held, kernelLocals, outcome, signals>>

\* (mutation) the test compares with a misspelt name and rejects nothing
RejectsPolarizability_Typo(p) == p = "drpa_exact"

\* line 61: the test that rejects the exact polarizability
RejectsPolarizability(p) == p = "drpa-exact"

\* kernel, lines 59-62
KernelGuard ==
    /\ pc = "k_guard"
    /\ IF RejectsPolarizability(polarizability)
       THEN Raise("NotImplementedError")
       ELSE /\ pc' = "k_ao2mo"
            /\ UNCHANGED <<outcome, phases>>
    /\ UNCHANGED <<entry, args, options, elsewhere, held, kernelLocals, signals>>

\* kernel, lines 64-65
KernelAo2mo ==
    /\ pc = "k_ao2mo"
    /\ integrals' = IF args.integrals = None THEN "ao2mo" ELSE "arg"
    /\ pc' = "k_setup"
    /\ UNCHANGED <<entry, args, options, elsewhere, held, outcome, phases, signals,
                   mo_energy, mo_energy_prev, mo_coeff, dm, diis, diis_qp,
                   subgw, se, th, th_prev, cycle, qp_cycle, conv, conv_qp>>

\* kernel, lines 67-85: copies of the orbitals, overlap, density matrix,
\* core Hamiltonian and the DIIS object of the static potential.  The
\* orbitals are the arguments of the call, which every worker is given alike.
KernelSetup ==
    /\ pc = "k_setup"
    /\ mo_energy' = <<0, 0>>
    /\ mo_coeff' = <<0, 0>>
    /\ dm' = <<0, 0>>
    /\ diis' = NewDIIS
    /\ held' = [held EXCEPT !.mo_energy = "same", !.mo_coeff = "same",
                            !.dm = "same"]
    /\ pc' = "k_solve0"
    /\ UNCHANGED <<entry, args, options, elsewhere, outcome, phases, signals,
                   integrals, mo_energy_prev, diis_qp, subgw, se, th,
                   th_prev, cycle, qp_cycle, conv, conv_qp>>

\* (mutation) the flag starts out True
ConvInit_True == TRUE

\* line 97
ConvInit == FALSE

\* kernel, lines 88-97: the solver is constructed and run, the moments are
\* taken from its self-energy, conv is initialised.  The solver may fail.
KernelSolve0 ==
    /\ pc = "k_solve0"
    /\ \/ /\ subgw' = [constructed |-> TRUE, mo_energy |-> mo_energy,
                       mo_coeff |-> mo_coeff, calls |-> 1]
          /\ se' = 1
          /\ th' = <<"se", 1>>
          /\ conv' = ConvInit
          /\ pc' = "k_loop"
          /\ phases' = Enter("SOLVE_SE")
          /\ UNCHANGED outcome
       \/ /\ subgw' = [constructed |-> TRUE, mo_energy |-> mo_energy,
                       mo_coeff |-> mo_coeff, calls |-> 1]
          /\ RaiseIn("SolverError", "SOLVE_SE")
          /\ UNCHANGED <<se, th, conv>>
    /\ UNCHANGED <<entry, args, options, elsewhere, held, signals, integrals, mo_energy,
                   mo_energy_prev, mo_coeff, dm, diis, diis_qp, th_prev,
                   cycle, qp_cycle, conv_qp>>

\* (mutation) the outer loop runs one cycle too many
OuterLoopContinues_OffByOne(c) == c <= max_cycle

\* line 98: range(1, gw.max_cycle + 1) has a next element
OuterLoopContinues(c) == c < max_cycle

\* kernel, line 98: the head of the outer loop
KernelLoop ==
    /\ pc = "k_loop"
    /\ IF OuterLoopContinues(cycle)
       THEN /\ cycle' = cycle + 1
            /\ pc' = "k_static"
       ELSE /\ pc' = "k_return"
            /\ UNCHANGED cycle
    /\ UNCHANGED <<entry, args, options, elsewhere, held, outcome, phases, signals,
                   integrals, mo_energy, mo_energy_prev, mo_coeff, dm, diis,
                   diis_qp, subgw, se, th, th_prev, qp_cycle, conv, conv_qp>>

\* kernel, lines 102-104: static potential, projection, DIIS update
KernelStatic ==
    /\ pc = "k_static"
    /\ diis' = DIISUpdate(diis, <<"se_qp", cycle, 0>>)
    /\ pc' = "k_fock_init"
    /\ phases' = Enter("BUILD_STATIC_POTENTIAL")
    /\ UNCHANGED <<entry, args, options, elsewhere, held, outcome, signals, integrals,
                   mo_energy, mo_energy_prev, mo_coeff, dm, diis_qp, subgw,
                   se, th, th_prev, cycle, qp_cycle, conv, conv_qp>>

\* kernel, lines 108-111
KernelFockInit ==
    /\ pc = "k_fock_init"
    /\ conv_qp' = FALSE
    /\ diis_qp' = NewDIIS
    /\ mo_energy_prev' = mo_energy
    /\ qp_cycle' = 0
    /\ pc' = "k_fock"
    /\ phases' = Enter("FOCK_LOOP")
    /\ UNCHANGED <<entry, args, options, elsewhere, held, outcome, signals, integrals,
                   mo_energy, mo_coeff, dm, diis, subgw, se, th, th_prev,
                   cycle, conv>>

\* What a worker computed from data of its own: the Fock matrix after
\* get_fock and the DIIS update (lines 113-115), the eigenvectors that eigh
\* returns (line 118), which are fixed up to phases and to rotations inside
\* degenerate levels only.
OwnResult == "own"

\* (mutation) no broadcast: every worker goes on with its own array
BcastRoot_Skipped(x) == x

\* lines 116, 119: mpi_helper.bcast(x, root=0) gives every worker the array
\* of worker 0
BcastRoot(x) == "same"

\* a function of the arrays xs is the same on all workers if they all are
FromAll(xs) == IF xs = {"same"} THEN "same" ELSE "own"

\* line 112: range(1, gw.max_cycle_qp + 1) has a next element
InnerLoopContinues(n) == n < max_cycle_qp

\* kernel, lines 112-127: one iteration of the inner Fock loop, or its
\* exhaustion.  small is the outcome of error < gw.conv_tol_qp.
KernelFock ==
    /\ pc = "k_fock"
    /\ IF InnerLoopContinues(qp_cycle)
       THEN /\ qp_cycle' = qp_cycle + 1
            /\ diis_qp' = DIISUpdate(diis_qp, <<"fock_eff", cycle, qp_cycle'>>)
            /\ mo_energy' = <<cycle, qp_cycle'>>
            /\ mo_coeff' = <<cycle, qp_cycle'>>
            /\ dm' = <<cycle, qp_cycle'>>
            /\ LET fock_eff == BcastRoot(OwnResult)      \* lines 113-116
                    u == BcastRoot(OwnResult)             \* lines 118-119
                IN held' = [fock_eff |-> fock_eff, u |-> u,
                            mo_energy |-> fock_eff,       \* line 118
                            mo_coeff |-> FromAll({held.mo_coeff, u}),  \* 120
                            dm |-> FromAll({u})]          \* line 123
            /\ \E small \in BOOLEAN :
                  IF small THEN conv_qp' = TRUE /\ pc' = "k_fock_exit"
                           ELSE UNCHANGED conv_qp /\ pc' = "k_fock"
       ELSE /\ pc' = "k_fock_exit"
            /\ UNCHANGED <<qp_cycle, diis_qp, mo_energy, mo_coeff, dm, conv_qp,
                           held>>
    /\ UNCHANGED <<entry, args, options, elsewhere, outcome, phases, signals,
                   integrals, mo_energy_prev, diis, subgw, se, th, th_prev,
                   cycle, conv>>

\* lines 129-132: a converged or a non-converged inner loop is logged only
InnerLoopOutcome(ok) == None

\* kernel, lines 129-132
KernelFockExit ==
    /\ pc = "k_fock_exit"
    /\ IF InnerLoopOutcome(conv_qp) = None
       THEN pc' = "k_solve" /\ UNCHANGED <<outcome, phases>>
       ELSE Raise(InnerLoopOutcome(conv_qp))
    /\ UNCHANGED <<entry, args, options, elsewhere, held, kernelLocals, signals>>

\* (mutation) the solver is given the energies from before the inner loop
SolverOrbitals_Stale == [e |-> mo_energy_prev, c |-> mo_coeff]

\* lines 135-136: the orbitals handed to the solver
SolverOrbitals == [e |-> mo_energy, c |-> mo_coeff]

\* kernel, lines 135-143: the self-energy and the moments are updated
KernelSolve ==
    /\ pc = "k_solve"
    /\ subgw' = [subgw EXCEPT !.mo_energy = SolverOrbitals.e,
                              !.mo_coeff = SolverOrbitals.c,
                              !.calls = @ + 1]
    /\ \/ /\ se' = subgw'.calls
          /\ th_prev' = th
          /\ th' = <<"se", subgw'.calls>>
          /\ pc' = "k_check"
          /\ phases' = Enter("SOLVE_SE")
          /\ UNCHANGED outcome
       \/ /\ RaiseIn("SolverError", "SOLVE_SE")
          /\ UNCHANGED <<se, th, th_prev>>
    /\ UNCHANGED <<entry, args, options, elsewhere, held, signals, integrals, mo_energy,
                   mo_energy_prev, mo_coeff, dm, diis, diis_qp, cycle,
                   qp_cycle, conv, conv_qp>>

\* (mutation) an unconverged check leads straight to the next solve
AfterCheck_ToSolve(c) == IF c THEN "k_return" ELSE "k_solve"

\* line 149-150 and the loop head: where the run goes after the check
AfterCheck(c) == IF c THEN "k_return" ELSE "k_loop"

\* kernel, lines 146-150
KernelCheck ==
    /\ pc = "k_check"
    /\ \E e_ok \in EnergySignals, m_ok \in MomentSignals :
          /\ conv' = check_convergence(e_ok, m_ok)
          /\ signals' = [called |-> TRUE, cycle |-> cycle, e_ok |-> e_ok,
                         m_ok |-> m_ok, qp_ok |-> conv_qp, result |-> conv']
    /\ th_prev' = th
    /\ pc' = AfterCheck(conv')
    /\ phases' = Enter("CHECK_CONVERGENCE")
    /\ UNCHANGED <<entry, args, options, elsewhere, held, outcome, integrals, mo_energy,
                   mo_energy_prev, mo_coeff, dm, diis, diis_qp, subgw, se,
                   th, cycle, qp_cycle, conv_qp>>

\* line 152: what kernel returns
KernelResult == <<"conv", "gf", "se", "mo_energy">>

\* line 364: what qsGW.kernel returns
QsGWKernelResult == <<"converged", "gf", "se">>

\* kernel, line 152, and the rest of qsGW.kernel, lines 333-364: the four
\* results of kernel are unpacked into attributes of the object, the poles
\* are logged, and the method returns.  The extrapolation objects are locals
\* and die with the call.
KernelReturn ==
    /\ pc = "k_return"
    /\ IF Len(KernelResult) = 4
       THEN /\ self_attrs' = [set |-> TRUE, converged |-> conv, gf |-> se,
                              se |-> se, qp_energy |-> mo_energy]
            /\ ret' = QsGWKernelResult
            /\ pc' = "done"
            /\ phases' = Enter("DONE")
            /\ UNCHANGED error
       ELSE Raise("ValueError")
    /\ UNCHANGED <<entry, args, options, elsewhere, held, kernelLocals, signals>>

(***************************************************************************)
(* BaseKGW.kernel of pbc/base.py                                           *)
(***************************************************************************)

\* line 135: what BaseKGW.kernel returns
BaseKGWKernelResult == <<"converged", "gf", "se", "qp_energy">>

\* BaseKGW.kernel, lines 93-108: the defaults of the optional arguments
BaseKGWKernelEnter ==
    /\ pc = "idle"
    /\ \E a \in [mo_energy : Opt, mo_coeff : Opt, moments : Opt,
                 integrals : Opt] : args' = a
    /\ entry' = "BaseKGW.kernel"
    /\ pc' = "kgw_kernel"
    /\ UNCHANGED <<options, elsewhere, held, kernelLocals, outcome, phases, signals>>

\* BaseKGW.kernel, lines 110-135: the solver's own _kernel supplies the four
\* results (or fails); they are stored and returned.
BaseKGWKernelRun ==
    /\ pc = "kgw_kernel"
    /\ \/ \E c \in BOOLEAN :
            /\ self_attrs' = [set |-> TRUE, converged |-> c, gf |-> 1,
                              se |-> 1, qp_energy |-> <<0, 0>>]
            /\ ret' = BaseKGWKernelResult
            /\ pc' = "done"
            /\ UNCHANGED <<error, phases>>
       \/ /\ error' = "SolverError"
          /\ pc' = "failed"
          /\ UNCHANGED <<ret, self_attrs, phases>>
    /\ UNCHANGED <<entry, args, options, elsewhere, held, kernelLocals, signals>>

(***************************************************************************)
(* TDA.build_dd_moments_exact of pbc/tda.py                                *)
(***************************************************************************)

\* lines 210-211: the body is a single raise
BuildDDMomentsExactRaises == "NotImplementedError"

\* TDA.build_dd_moments_exact, lines 210-211
BuildDDMomentsExact ==
    /\ pc = "idle"
    /\ entry' = "TDA.build_dd_moments_exact"
    /\ error' = BuildDDMomentsExactRaises
    /\ pc' = IF error' = None THEN "done" ELSE "failed"
    /\ ret' = IF error' = None THEN <<"moments">> ELSE << >>
    /\ UNCHANGED <<args, options, elsewhere, held, kernelLocals, self_attrs, phases, signals>>

(***************************************************************************)
(* TDA.build_se_moments of pbc/tda.py                                      *)
(*                                                                         *)
(* A moment matrix is a function [i][j] of complex entries <<re, im>>.     *)
(* The entries are integers in units of half the absolute tolerance of     *)
(* numpy.allclose, so that the comparison of line 196 is exact.            *)
(***************************************************************************)
Kpts == 0..(NKpts - 1)
Orbs == 1..NMO

\* numpy.allclose's default atol (1e-8), in the units of the entries
Atol == 2

CAdd(x, y) == <<x[1] + y[1], x[2] + y[2]>>
CSub(x, y) == <<x[1] - y[1], x[2] - y[2]>>
Conj(x) == <<x[1], -x[2]>>
AbsSq(x) == x[1] * x[1] + x[2] * x[2]
\* 0.5 * x; exact because every sum that is halved here is even
CHalf(x) == <<x[1] \div 2, x[2] \div 2>>

\* M.T.conj()
Dagger(M) == [i \in Orbs |-> [j \in Orbs |-> Conj(M[j][i])]]

\* np.allclose(A, B): |A - B| <= atol + rtol * |B| for every entry.  The
\* entries are below 100 units, so rtol * |B| (rtol = 1e-5) is below 1e-3
\* units and |A - B|^2, an integer, is within the bound iff it is <= atol^2.
AllClose(A, B) ==
    \A i \in Orbs, j \in Orbs : AbsSq(CSub(A[i][j], B[i][j])) <= Atol * Atol

\* (mutation) the matrix is stored as it was built
Symmetrize_Skipped(M) == M

\* lines 203-204: 0.5 * (M + M.T.conj())
Symmetrize(M) ==
    [i \in Orbs |-> [j \in Orbs |-> CHalf(CAdd(M[i][j], Dagger(M)[i][j]))]]

\* line 173-174: np.zeros((nmo, nmo), dtype=complex)
Zeros == [i \in Orbs |-> [j \in Orbs |-> <<0, 0>>]]

\* The convolution of lines 147-192 is numerical work on the integrals and
\* the density-density moments.  What it leaves in slot (k, n) is one of:
\* an exactly Hermitian matrix, or that matrix with one defect, within or
\* beyond the tolerance, off the diagonal or (an imaginary part) on it.
Exact(k, n) ==
    [i \in Orbs |-> [j \in Orbs |->
        <<2 * (i + j) + k - n,
          IF i < j THEN 3 + n ELSE IF i > j THEN 0 - (3 + n) ELSE 0>>]]

Defects == {"none", "off_within", "diag_within", "off_beyond", "diag_beyond"}

Constructed(k, n, d) ==
    LET H == Exact(k, n) IN
    CASE d = "none" -> H
      [] d = "off_within" ->
            [H EXCEPT ![1][NMO] = CAdd(@, <<1, 0>>), ![NMO][1] = CSub(@, <<1, 0>>)]
      [] d = "diag_within" -> [H EXCEPT ![1][1] = CAdd(@, <<0, 1>>)]
      [] d = "off_beyond" -> [H EXCEPT ![1][NMO] = CAdd(@, <<3, 0>>)]
      [] d = "diag_beyond" -> [H EXCEPT ![1][1] = CAdd(@, <<0, 2>>)]

NoBuilt == [read |-> FALSE, k |-> 0, n |-> 0, occ |-> Zeros, vir |-> Zeros]
NoMoments == [returned |-> FALSE, occ |-> << >>, vir |-> << >>]

\* no call of build_se_moments has been made
TDAIdle ==
    /\ se_pc = "idle"
    /\ moments_occ = << >>
    /\ moments_vir = << >>
    /\ herm_k = 0
    /\ herm_n = 0
    /\ se_error = None
    /\ se_ret = NoMoments
    /\ built = NoBuilt

InitTDA ==
    /\ diagonal_se \in BOOLEAN
    /\ nmom_max \in 0..MaxMom
    /\ TDAIdle

\* build_se_moments, lines 134-146: logging and the set-up that depends on
\* diagonal_se.  In the diagonal branch line 140 binds pqchar, charp and
\* qchar; pchar stays unbound.
BuildSEMomentsEnter ==
    /\ se_pc = "idle"
    /\ se_pc' = "se_rotate"
    /\ UNCHANGED <<diagonal_se, nmom_max, moments_occ, moments_vir, herm_k,
                   herm_n, se_error, se_ret, built, notTDA>>

\* line 166: the name pchar is read in the first pass of the loop body
PcharBound == ~diagonal_se

\* build_se_moments, lines 147-192: the rotation of the density-density
\* moments and the convolution.  The arrays are allocated at lines 173-174;
\* the value accumulated in a slot is drawn when the slot is read.
BuildSEMomentsConvolve ==
    /\ se_pc = "se_rotate"
    /\ IF PcharBound
       THEN /\ moments_occ' = [k \in Kpts |-> [n \in 0..nmom_max |-> Zeros]]
            /\ moments_vir' = [k \in Kpts |-> [n \in 0..nmom_max |-> Zeros]]
            /\ herm_k' = 0
            /\ herm_n' = 0
            /\ se_pc' = "se_herm"
            /\ UNCHANGED se_error
       ELSE /\ se_error' = "NameError"
            /\ se_pc' = "failed"
            /\ UNCHANGED <<moments_occ, moments_vir, herm_k, herm_n>>
    /\ UNCHANGED <<diagonal_se, nmom_max, se_ret, built, notTDA>>

\* build_se_moments, lines 195-204: one pass of the body of the Hermiticity
\* loop, for the slot (herm_k, herm_n); do and dv say what the convolution
\* left in the occupied and in the virtual slot.
BuildSEMomentsHermitize ==
    /\ se_pc = "se_herm"
    /\ herm_k < NKpts
    /\ \E do \in Defects, dv \in Defects :
         LET occ == Constructed(herm_k, herm_n, do)
             vir == Constructed(herm_k, herm_n, dv)
         IN  /\ built' = [read |-> TRUE, k |-> herm_k, n |-> herm_n,
                          occ |-> occ, vir |-> vir]
             /\ IF ~AllClose(occ, Dagger(occ)) \/ ~AllClose(vir, Dagger(vir))
                THEN /\ se_error' = "ValueError"
                     /\ se_pc' = "failed"
                     /\ moments_occ' =
                          [moments_occ EXCEPT ![herm_k][herm_n] = occ]
                     /\ moments_vir' =
                          [moments_vir EXCEPT ![herm_k][herm_n] = vir]
                     /\ UNCHANGED <<herm_k, herm_n>>
                ELSE /\ moments_occ' =
                          [moments_occ EXCEPT ![herm_k][herm_n] = Symmetrize(occ)]
                     /\ moments_vir' =
                          [moments_vir EXCEPT ![herm_k][herm_n] = Symmetrize(vir)]
                     /\ IF herm_n < nmom_max
                        THEN herm_n' = herm_n + 1 /\ UNCHANGED herm_k
                        ELSE herm_n' = 0 /\ herm_k' = herm_k + 1
                     /\ UNCHANGED <<se_error, se_pc>>
    /\ UNCHANGED <<diagonal_se, nmom_max, se_ret, notTDA>>

\* build_se_moments, lines 206-208
BuildSEMomentsReturn ==
    /\ se_pc = "se_herm"
    /\ herm_k = NKpts
    /\ se_ret' = [returned |-> TRUE, occ |-> moments_occ, vir |-> moments_vir]
    /\ se_pc' = "returned"
    /\ UNCHANGED <<diagonal_se, nmom_max, moments_occ, moments_vir, herm_k,
                   herm_n, se_error, built, notTDA>>


(***************************************************************************)
(* KIntegrals of pbc/ints.py                                               *)
(*                                                                         *)
(* The mesh is the cyclic group of NKpts points: kpts[k] is k, wrap_around *)
(* reduces modulo NKpts and member gives the index of a point.  The model  *)
(* follows one MPI worker; what it receives from the root is what the root *)
(* computes with the same code.  The orbital counts are the same for every *)
(* k-point.                                                                *)
(***************************************************************************)
\* kpts.member(kpts.wrap_around(kpts[a] + kpts[b]))
KAdd(a, b) == (a + b) % NKpts
\* kpts.member(kpts.wrap_around(kpts[a] - kpts[b]))
KSub(a, b) == (a + NKpts - b) % NKpts
\* kpts.member(kpts.wrap_around(-kpts[a]))
KNeg(a) == (NKpts - a) % NKpts

\* kpts.loop(1, mpi=True): the k-points of this worker, in ascending order
RECURSIVE ShareFrom(_)
ShareFrom(k) ==
    IF k >= NKpts THEN << >>
    ELSE IF k % mpi_size = mpi_rank THEN <<k>> \o ShareFrom(k + 1)
    ELSE ShareFrom(k + 1)
Share == ShareFrom(0)

\* What with_df.sr_loop yields for a pair of k-points: a sequence of chunks,
\* each with its number of auxiliary rows and its third component (sign).
FullChunk == [rows |-> NauxFull, sign |-> 1]
Streams ==
    { <<FullChunk>>,
      <<[rows |-> NauxFull, sign |-> -1]>>,
      <<FullChunk, [rows |-> 1, sign |-> -1]>>,
      <<[rows |-> NauxFull - 1, sign |-> 1], [rows |-> 1, sign |-> 1]>> }

\* (mutation) the third component is compared with a value never yielded
IsSentinel_Never(c) == c.sign = 0

\* lines 82, 181, 240, 303, 315, 365, 377: block[2] == -1
IsSentinel(c) == c.sign = -1

\* The head of every loop over sr_loop (lines 81-86, 180-185, 239-244,
\* 302-307, 314-319, 364-369, 376-381): the sentinel test, the reshape to
\* naux_full rows, and the slice b0:b1 that the chunk is written to.
RECURSIVE Consume(_, _, _)
Consume(s, i, b1) ==
    IF i > Len(s)
    THEN [status |-> "ok", flag_read |-> FALSE, flag_used |-> FALSE]
    ELSE LET c == s[i] IN
         IF IsSentinel(c)
         THEN [status |-> "NotImplementedError", flag_read |-> TRUE,
               flag_used |-> FALSE]
         ELSE IF c.rows # NauxFull \/ b1 + c.rows > NauxFull
         THEN [status |-> "ValueError", flag_read |-> c.sign = -1,
               flag_used |-> FALSE]
         ELSE LET r == Consume(s, i + 1, b1 + c.rows) IN
              [r EXCEPT !.flag_read = @ \/ c.sign = -1,
                        !.flag_used = @ \/ c.sign = -1]

ReadStream(s) == Consume(s, 1, 0)
NothingSeen == [flag_read |-> FALSE, flag_used |-> FALSE]
\* the history after a stream was read with the result r
See(r) == [flag_read |-> seen.flag_read \/ r.flag_read,
           flag_used |-> seen.flag_used \/ r.flag_used]

\* An entry of a rot array: the kept eigenvectors ("vecs"), None, the
\* identity np.eye(naux_full) ("eye"), np.zeros((0,)) ("empty"), or an
\* element of np.empty that was never assigned ("unset").
RotUnset == [kind |-> "unset", kept |-> {}]
RotEmpty == [kind |-> "empty", kept |-> {}]
RotNone == [kind |-> "None", kept |-> {}]
RotEye == [kind |-> "eye", kept |-> {}]
NoRot == [set |-> FALSE, at |-> [k \in Kpts |-> RotUnset]]

\* c.shape[-1]
LastDim(c) == IF c.kind = "vecs" THEN Cardinality(c.kept)
              ELSE IF c.kind = "eye" THEN NauxFull ELSE 0

\* lines 478-486: the property naux, for one q
naux(qq) ==
    IF ~self_rot.set THEN NauxFull
    ELSE IF self_rot.at[qq].kind = "None" THEN NauxFull
    ELSE LastDim(self_rot.at[qq])

\* (mutation) the comparison is not strict
Mask_NotStrict(e, tol) == {i \in 1..NauxFull : (IF e[i] < 0 THEN 0 - e[i] ELSE e[i]) >= tol}

\* (mutation) the sign of the eigenvalue is kept
Mask_Signed(e, tol) == {i \in 1..NauxFull : e[i] > tol}

\* line 99: mask = np.abs(e) > self.compression_tol
Mask(e, tol) ==
    {i \in 1..NauxFull : (IF e[i] < 0 THEN 0 - e[i] ELSE e[i]) > tol}

\* line 100: v[:, mask]
Vecs(e, tol) == [kind |-> "vecs", kept |-> Mask(e, tol)]

\* The eigenvalues of a Hermitian matrix as eigh returns them: ascending.
EigVals == {-2, 0, 1}
Spectra == {e \in [1..NauxFull -> EigVals] :
               \A i \in 1..(NauxFull - 1) : e[i] <= e[i + 1]}
\* two spectra: nothing is below the tolerance, one eigenvalue is
SpectraFew == {[i \in 1..NauxFull |-> IF i <= z THEN 0 ELSE 1] : z \in {0, 1}}
NoSpectrum == << >>

NoFamily == [present |-> FALSE, dict |-> {}]
NoBlocks == [Lpq |-> NoFamily, Lpx |-> NoFamily, Lia |-> NoFamily,
             Lai |-> NoFamily]
NoOp == [name |-> None, do_Lpq |-> FALSE, do_Lpx |-> FALSE, do_Lia |-> FALSE,
         basis |-> None, ewald |-> FALSE]
NoProd == [k \in Kpts |-> {}]

\* no call is in progress: the locals of the calls do not exist
IntsLocalsIdle ==
    /\ prod = NoProd
    /\ rot = NoRot.at
    /\ loop_q = 0
    /\ loop_i = 0
    /\ q = 0
    /\ Lpq = {}
    /\ Lpx = {}
    /\ Lia = {}
    /\ Lai = {}

\* the container after Integrals.__init__: no basis, no blocks
IntsFresh ==
    /\ i_pc = "idle"
    /\ i_op = NoOp
    /\ self_rot = NoRot
    /\ self_blocks = NoBlocks
    /\ IntsLocalsIdle
    /\ i_error = None
    /\ i_ret = None
    /\ eigs = [k \in Kpts |-> NoSpectrum]
    /\ blocks_before = NoBlocks
    /\ seen = NothingSeen

\* the ways a run distributes the k-points: one worker, or one of two
Workers == {<<1, 0>>, <<2, 0>>, <<2, 1>>}

InitInts ==
    /\ store_full \in BOOLEAN
    /\ compression \in {{}, {"ia"}}
    /\ compression_tol = 0
    /\ \E w \in Workers : mpi_size = w[1] /\ mpi_rank = w[2]
    /\ IntsFresh

\* a call is made: the locals and the record of the last call are reset
CallBegins(op) ==
    /\ i_pc = "idle"
    /\ i_op' = op
    /\ i_error' = None
    /\ i_ret' = None
    /\ blocks_before' = self_blocks
    /\ seen' = NothingSeen
    /\ prod' = NoProd
    /\ rot' = NoRot.at
    /\ loop_q' = 0
    /\ loop_i' = 0
    /\ q' = 0
    /\ Lpq' = {}
    /\ Lpx' = {}
    /\ Lia' = {}
    /\ Lai' = {}

\* a call is over: its arguments are gone, its name is remembered
Over == [NoOp EXCEPT !.name = i_op.name]

\* an exception leaves the call: its locals are gone
CallFails(e) ==
    /\ i_pc' = "idle"
    /\ i_error' = e
    /\ prod' = NoProd
    /\ rot' = NoRot.at
    /\ loop_q' = 0
    /\ loop_i' = 0
    /\ q' = 0
    /\ Lpq' = {}
    /\ Lpx' = {}
    /\ Lia' = {}
    /\ Lai' = {}
    /\ i_op' = Over
    /\ UNCHANGED <<i_ret, blocks_before>>


(* ---- KIntegrals.transform, lines 121-142, and get_compression_metric ---- *)

DoFlags == [do_Lpq : {None, "False", "True"}, do_Lpx : BOOLEAN,
            do_Lia : BOOLEAN]

\* transform is called with the arguments a, drawn from the set A; line
\* 130: the basis is computed if there is none yet
TransformEnter(A) ==
    /\ \E a \in A :
          CallBegins([name |-> "transform", do_Lpq |-> a.do_Lpq,
                      do_Lpx |-> a.do_Lpx, do_Lia |-> a.do_Lia,
                      basis |-> None, ewald |-> FALSE])
    /\ i_pc' = IF self_rot.set THEN "t_132" ELSE "m_52"
    /\ UNCHANGED <<intsConfig, self_rot, self_blocks, eigs, notInts>>

\* lines 76-77: the pairs whose streams one key of the compression reads
RECURSIVE MetricPairsFrom(_, _)
MetricPairsFrom(qq, ki) ==
    IF qq >= NKpts THEN << >>
    ELSE IF ki >= NKpts THEN MetricPairsFrom(qq + 1, 0)
    ELSE <<[q |-> qq, ki |-> ki, kj |-> KSub(ki, qq)]>>
         \o MetricPairsFrom(qq, ki + 1)
MetricPairs == MetricPairsFrom(0, 0)

\* line 93: prod[q] after the streams of the first n pairs were accumulated
ProdAfter(n) ==
    [k \in Kpts |-> {<<MetricPairs[i].ki, MetricPairs[i].kj>> :
                        i \in {j \in 1..n : MetricPairs[j].q = k}}]

\* get_compression_metric, lines 52-93.  Without compression None is
\* returned, and line 131 stores it.  Otherwise the streams of all pairs
\* are read for every key: they are all good, or one of them stops the loop.
GetCompressionMetricProd ==
    /\ i_pc = "m_52"
    /\ IF compression = {}
       THEN /\ i_pc' = "t_132"
            /\ UNCHANGED <<prod, loop_q, i_error, seen, transformLocals, rot,
                           i_op, i_ret, blocks_before>>
       ELSE \E st \in Streams :
              LET r == ReadStream(st) IN
              /\ seen' = See(r)
              /\ IF r.status = "ok"
                 THEN /\ prod' = ProdAfter(Len(MetricPairs))
                      /\ loop_q' = 0
                      /\ i_pc' = "m_95"
                      /\ UNCHANGED <<i_error, transformLocals, rot, i_op,
                                     i_ret, blocks_before>>
                 ELSE CallFails(r.status)
    /\ UNCHANGED <<intsConfig, self_rot, self_blocks, eigs, notInts>>

\* get_compression_metric, lines 95-104: one pass of the loop over q.  The
\* root diagonalizes prod[q] (S holds the spectra eigh may return) and masks
\* the eigenvectors; another worker puts an empty array in its place.
GetCompressionMetricEig(S) ==
    /\ i_pc = "m_95"
    /\ \E e \in S : eigs' = [eigs EXCEPT ![loop_q] = e]
    /\ rot' = [rot EXCEPT ![loop_q] =
                 IF mpi_rank = 0 THEN Vecs(eigs'[loop_q], compression_tol)
                 ELSE RotEmpty]
    /\ IF loop_q + 1 < NKpts
       THEN loop_q' = loop_q + 1 /\ UNCHANGED <<i_pc, prod>>
       ELSE loop_q' = 0 /\ i_pc' = "m_106" /\ prod' = NoProd
    /\ UNCHANGED <<i_op, intsConfig, self_rot, self_blocks, transformLocals,
                   i_error, i_ret, blocks_before, seen, notInts>>

\* (mutation) every worker keeps what it computed itself
Bcast_Local(qq) == rot[qq]

\* line 107: what the broadcast from the root delivers for q
Bcast(qq) == IF mpi_rank = 0 THEN rot[qq]
             ELSE Vecs(eigs[qq], compression_tol)

\* lines 109-111: a basis of full rank is replaced by None
FullRankIsNone(c) == IF LastDim(c) = NauxFull THEN RotNone ELSE c

\* get_compression_metric, lines 106-119: one pass of the loop over q; after
\* the last one rot is returned and line 131 stores it in _rot.
GetCompressionMetricBcast ==
    /\ i_pc = "m_106"
    /\ rot' = [rot EXCEPT ![loop_q] = FullRankIsNone(Bcast(loop_q))]
    /\ IF loop_q + 1 < NKpts
       THEN loop_q' = loop_q + 1 /\ UNCHANGED <<i_pc, self_rot>>
       ELSE /\ loop_q' = 0
            /\ self_rot' = [set |-> TRUE, at |-> rot']
            /\ i_pc' = "t_132"
    /\ UNCHANGED <<i_op, intsConfig, self_blocks, prod, transformLocals,
                   i_error, i_ret, eigs, blocks_before, seen, notInts>>

\* line 140: do_Lpq = self.store_full if do_Lpq is None else do_Lpq
EffectiveLpq == IF i_op.do_Lpq = None THEN store_full
                ELSE i_op.do_Lpq = "True"

\* transform, lines 132-142: rot is _rot itself, so line 138 writes the
\* identity into _rot where it held None; without any basis rot is a
\* dictionary that gives the identity.  Nothing to build: return.
TransformDefaults ==
    /\ i_pc = "t_132"
    /\ self_rot' = IF self_rot.set
                   THEN [self_rot EXCEPT !.at =
                           [k \in Kpts |-> IF @[k].kind = "None" THEN RotEye
                                           ELSE @[k]]]
                   ELSE self_rot
    /\ IF EffectiveLpq \/ i_op.do_Lpx \/ i_op.do_Lia
       THEN /\ i_pc' = "t_152"
            /\ i_op' = [i_op EXCEPT !.do_Lpq =
                          IF EffectiveLpq THEN "True" ELSE "False"]
            /\ loop_i' = 1
       ELSE /\ i_pc' = "idle"
            /\ i_op' = Over
            /\ UNCHANGED loop_i
    /\ loop_q' = 0
    /\ q' = 0
    /\ rot' = NoRot.at
    /\ UNCHANGED <<intsConfig, self_blocks, prod, Lpq, Lpx, Lia, Lai,
                   i_error, i_ret, eigs, blocks_before, seen, notInts>>

(* ---- KIntegrals.transform, lines 144-273 ---- *)

\* the local rot of transform (lines 132-138), for one q
Rot(qq) == IF self_rot.set THEN self_rot.at[qq] ELSE RotEye

\* a[...] += b for arrays whose first dimensions are n and m: numpy
\* broadcasts b to the shape of a, or raises
InPlaceAddOK(n, m) == m = n \/ m = 1

\* d[key] = item
Put(d, item) == {x \in d : x.key # item.key} \cup {item}

\* the heads of the two loops, lines 152-153: the next pass, or the end
TransformAdvance(qnow) ==
    IF loop_i < Len(Share)
    THEN loop_i' = loop_i + 1 /\ q' = qnow /\ UNCHANGED <<loop_q, i_pc>>
    ELSE IF loop_q + 1 < NKpts
    THEN loop_i' = 1 /\ loop_q' = loop_q + 1 /\ q' = loop_q + 1
         /\ UNCHANGED i_pc
    ELSE i_pc' = "t_265" /\ q' = qnow /\ UNCHANGED <<loop_q, loop_i>>

\* (mutation) the transfer is not inverted for the second family
InverseTransfer_Skipped(qq) == qq

\* line 235: q is replaced by the index of the inverse of its point
InverseTransfer(qq) == KNeg(qq)

\* transform, lines 154-263: one pass of the body of the loop over ki.  s1
\* and s2 are what sr_loop yields for (ki, kj) and for (kj, ki).
TransformBlock ==
    /\ i_pc = "t_152"
    /\ LET ki == Share[loop_i]
           kj == KAdd(q, ki)
           q2 == InverseTransfer(q)
           newLpq == IF i_op.do_Lpq = "True"
                     THEN Put(Lpq, [key |-> <<ki, kj>>, src |-> <<ki, kj>>,
                                    rows |-> NauxFull])
                     ELSE Lpq
           newLpx == IF i_op.do_Lpx
                     THEN Put(Lpx, [key |-> <<ki, kj>>, src |-> <<ki, kj>>,
                                    q |-> q, rows |-> naux(q)])
                     ELSE Lpx
           newLia == Put(Lia, [key |-> <<ki, kj>>, src |-> <<ki, kj>>,
                               q |-> q, rows |-> naux(q)])
           newLai == Put(Lai, [key |-> <<ki, kj>>, src |-> <<kj, ki>>,
                               q |-> q2, rows |-> naux(q),
                               added |-> LastDim(Rot(q2))])
       IN
       \E s1 \in Streams :
         LET r1 == ReadStream(s1) IN
         IF r1.status # "ok"
         THEN seen' = See(r1) /\ CallFails(r1.status)
         ELSE IF ~i_op.do_Lia
         THEN /\ seen' = See(r1)
              /\ Lpq' = newLpq /\ Lpx' = newLpx
              /\ TransformAdvance(q)
              /\ UNCHANGED <<Lia, Lai, i_op, i_error, i_ret, blocks_before,
                             metricLocals>>
         ELSE \E s2 \in Streams :
           LET r2 == ReadStream(s2)
               rd == [flag_read |-> See(r1).flag_read \/ r2.flag_read,
                      flag_used |-> See(r1).flag_used \/ r2.flag_used]
           IN
           IF r2.status # "ok"
           THEN seen' = rd /\ CallFails(r2.status)
           ELSE IF ~InPlaceAddOK(naux(q), LastDim(Rot(q2)))
           THEN seen' = rd /\ CallFails("ValueError")
           ELSE /\ seen' = rd
                /\ Lpq' = newLpq /\ Lpx' = newLpx
                /\ Lia' = newLia /\ Lai' = newLai
                /\ TransformAdvance(q2)
                /\ UNCHANGED <<i_op, i_error, i_ret, blocks_before,
                               metricLocals>>
    /\ UNCHANGED <<intsConfig, self_rot, self_blocks, eigs, notInts>>

\* transform, lines 265-273: the families that were built replace the old
\* ones, and the call returns
TransformCommit ==
    /\ i_pc = "t_265"
    /\ self_blocks' =
         [Lpq |-> IF i_op.do_Lpq = "True" THEN [present |-> TRUE, dict |-> Lpq]
                  ELSE self_blocks.Lpq,
          Lpx |-> IF i_op.do_Lpx THEN [present |-> TRUE, dict |-> Lpx]
                  ELSE self_blocks.Lpx,
          Lia |-> IF i_op.do_Lia THEN [present |-> TRUE, dict |-> Lia]
                  ELSE self_blocks.Lia,
          Lai |-> IF i_op.do_Lia THEN [present |-> TRUE, dict |-> Lai]
                  ELSE self_blocks.Lai]
    /\ i_pc' = "idle"
    /\ i_op' = Over
    /\ loop_q' = 0 /\ loop_i' = 0 /\ q' = 0
    /\ Lpq' = {} /\ Lpx' = {} /\ Lia' = {} /\ Lai' = {}
    /\ UNCHANGED <<intsConfig, self_rot, metricLocals, i_error, i_ret,
                   eigs, blocks_before, seen, notInts>>

(* ---- KIntegrals.get_j and get_k, lines 275-394 ---- *)

Bases == {"ao", "mo"}

\* get_j or get_k is called
JKEnter(name) ==
    /\ \E b \in Bases, ew \in BOOLEAN :
          /\ name = "get_j" => ~ew
          /\ CallBegins([name |-> name, do_Lpq |-> None, do_Lpx |-> FALSE,
                         do_Lia |-> FALSE, basis |-> b, ewald |-> ew])
    /\ i_pc' = "jk_run"
    /\ UNCHANGED <<intsConfig, self_rot, self_blocks, eigs, notInts>>

GetJEnter == JKEnter("get_j")
GetKEnter == JKEnter("get_k")

\* lines 282 and 338: the stored Lpq is used, the provider is not read
UsesStored == store_full /\ i_op.basis = "mo"

\* the pairs whose streams get_j reads, lines 300-302 and 312-314
JReads == [i \in 1..Len(Share) |-> <<Share[i], Share[i]>>]
          \o [i \in 1..Len(Share) |-> <<Share[i], Share[i]>>]

\* the pairs whose streams get_k reads for one kk, lines 362-364 and 374-376
KReadsOf(kk) == [i \in 1..Len(Share) |-> <<Share[i], kk>>]
                \o [i \in 1..Len(Share) |-> <<kk, Share[i]>>]
RECURSIVE KReadsFrom(_)
KReadsFrom(kk) == IF kk >= NKpts THEN << >>
                  ELSE KReadsOf(kk) \o KReadsFrom(kk + 1)
KReads == KReadsFrom(0)

\* the keys of Lpq that get_j (lines 285, 290) and get_k (346, 352) look up
StoredKeys ==
    LET mine == {Share[i] : i \in 1..Len(Share)} IN
    IF i_op.name = "get_j" THEN {<<kk, kk>> : kk \in mine}
    ELSE (mine \X Kpts)

\* lines 296 and 358: on the streaming path in the "mo" basis the name dm is
\* rebound to the density matrix in the AO basis; this is what the name
\* holds at lines 327 and 389
DmAtReturn == IF ~UsesStored /\ i_op.basis = "mo" THEN "dm_ao" ELSE "dm"

\* get_ewald, lines 396-408.  In the "mo" basis ovlp is a defaultdict, which
\* has no method conj (line 406).  In the "ao" basis ovlp is what the
\* provider's pbc_intor returns, taken to be an array here; ew is then made
\* of the matrix d that was passed for dm.
GetEwald(d, basis) ==
    IF basis = "mo" THEN [error |-> "AttributeError", ew |-> None]
    ELSE [error |-> None, ew |-> d]

\* lines 327-329 and 389-394: the division by the number of k-points, the
\* Ewald term of get_k, and the return
JKFinish ==
    IF i_op.name = "get_j" THEN i_ret' = "vj" /\ UNCHANGED i_error
    ELSE IF ~i_op.ewald THEN i_ret' = "vk" /\ UNCHANGED i_error
    ELSE LET r == GetEwald(DmAtReturn, i_op.basis) IN
         IF r.error # None THEN i_error' = r.error /\ UNCHANGED i_ret
         ELSE /\ i_ret' = IF r.ew = "dm" THEN "vk+ew(dm)" ELSE "vk+ew(dm_ao)"
              /\ UNCHANGED i_error

\* get_j, lines 278-329, and get_k, lines 334-394: with the stored Lpq, or
\* streaming the blocks from the provider.  The streams read are all good,
\* or one of them stops the loops.
JKRun ==
    /\ i_pc = "jk_run"
    /\ i_pc' = "idle"
    /\ i_op' = Over
    /\ LET reads == IF i_op.name = "get_j" THEN JReads ELSE KReads IN
       IF UsesStored
       THEN IF /\ self_blocks.Lpq.present
               /\ StoredKeys \subseteq {x.key : x \in self_blocks.Lpq.dict}
            THEN JKFinish /\ UNCHANGED seen
            ELSE /\ i_error' = "KeyError"
                 /\ UNCHANGED <<i_ret, seen>>
       ELSE \E st \in Streams :
              LET r == ReadStream(st) IN
              /\ seen' = See(r)
              /\ IF r.status = "ok"
                 THEN JKFinish
                 ELSE /\ Len(reads) > 0
                      /\ i_error' = r.status
                      /\ UNCHANGED i_ret
    /\ UNCHANGED <<intsConfig, self_rot, self_blocks, metricLocals,
                   loop_q, transformLocals, eigs, blocks_before, notInts>>

(***************************************************************************)
(* TDA.build_dd_moments of pbc/tda.py                                      *)
(*                                                                         *)
(* Every block and every moment is a matrix of one entry, a complex number *)
(* <<re, im>> with integer parts.  The moment of order n is kept in units  *)
(* of nkpts^-(n+1), which makes the divisions by nkpts exact.  kpts.loop   *)
(* yields every tuple of k-points once; the order of its last index is not *)
(* fixed here, any is allowed.                                             *)
(***************************************************************************)
CMul(x, y) == <<x[1] * y[1] - x[2] * y[2], x[1] * y[2] + x[2] * y[1]>>

\* self.integrals.Lia[a, b] and Lai[a, b], self.mo_energy_w at the occupied
\* and at the virtual orbital: the data of one of two systems s
LiaBlock(s, a, b) == <<1 + a + s, b - 2 * a>>
LaiBlock(s, a, b) == <<b - s, 1 + a>>
EnergyOcc(s, k) == k - 1
EnergyVir(s, k) == 2 * k + 3 + s

NoDDMoments == [qq \in Kpts |-> [kb \in Kpts |-> << >>]]

\* no call of build_dd_moments has been made
DDIdle ==
    /\ dd_pc = "idle"
    /\ dd_in = 0
    /\ dd_first = "denominator"
    /\ dd_n = 0
    /\ dd_q = 0
    /\ dd_ka = 0
    /\ dd_todo = {}
    /\ dd_moments = NoDDMoments
    /\ dd_applied = {}

\* lines 90-91: moments = np.zeros((nkpts, nkpts, nmom_max + 1))
BuildDDMomentsEnter ==
    /\ dd_pc = "idle"
    /\ dd_pc' = "order0"
    /\ dd_moments' = [qq \in Kpts |-> [kb \in Kpts |->
                        [n \in 0..nmom_max |-> <<0, 0>>]]]
    /\ dd_todo' = Kpts
    /\ UNCHANGED <<dd_in, dd_first, dd_n, dd_q, dd_ka, dd_applied, tdavars,
                   notDD>>

\* What follows the loop that is over: the passes of order n + 1, in the
\* order the run takes them, or the return of line 129.
AfterPass(pass) ==
    IF pass # "order0" /\ pass = dd_first
    THEN [pc |-> IF pass = "denominator" THEN "coupling" ELSE "denominator",
          n |-> dd_n]
    ELSE IF dd_n < nmom_max THEN [pc |-> dd_first, n |-> dd_n + 1]
    ELSE [pc |-> "done", n |-> dd_n]

\* the loop variables after kb was yielded in a loop over (q, kb)
PairYielded(kb, pass) ==
    /\ dd_applied' = IF dd_todo = {kb} /\ dd_q + 1 = NKpts
                        /\ AfterPass(pass).n # dd_n
                     THEN {}
                     ELSE dd_applied \cup {<<pass, dd_q, 0, kb>>}
    /\ IF dd_todo # {kb}
       THEN dd_todo' = dd_todo \ {kb} /\ UNCHANGED <<dd_pc, dd_n, dd_q>>
       ELSE /\ dd_todo' = Kpts
            /\ IF dd_q + 1 < NKpts
               THEN dd_q' = dd_q + 1 /\ UNCHANGED <<dd_pc, dd_n>>
               ELSE /\ dd_q' = 0
                    /\ dd_pc' = AfterPass(pass).pc
                    /\ dd_n' = AfterPass(pass).n
    /\ UNCHANGED <<dd_in, dd_first, dd_ka, tdavars, notDD>>

\* lines 94-96: one pass of the loop of order 0
BuildDDMomentsOrder0 ==
    /\ dd_pc = "order0"
    /\ \E kb \in dd_todo :
          LET kj == KSub(kb, dd_q) IN
          /\ dd_moments' = [dd_moments EXCEPT ![dd_q][kb][0] =
                               CAdd(@, LiaBlock(dd_in, kj, kb))]
          /\ PairYielded(kb, "order0")

\* (mutation) the factor is taken at kb for both orbitals
Denominator_SamePoint(kb, kj) == EnergyVir(dd_in, kb) - EnergyOcc(dd_in, kb)

\* lines 104-108: d, the virtual energy at kb minus the occupied one at kj
Denominator(kb, kj) == EnergyVir(dd_in, kb) - EnergyOcc(dd_in, kj)

\* lines 101-109: one pass of the loop over (q, kb) of order dd_n
BuildDDMomentsDenominator ==
    /\ dd_pc = "denominator"
    /\ \E kb \in dd_todo :
          LET kj == KSub(kb, dd_q)
              d == <<NKpts * Denominator(kb, kj), 0>>
          IN
          /\ dd_moments' = [dd_moments EXCEPT ![dd_q][kb][dd_n] =
                               CAdd(@, CMul(dd_moments[dd_q][kb][dd_n - 1], d))]
          /\ PairYielded(kb, "denominator")

\* (mutation) the moment of the order being built is read
CouplingReads_Current(n) == n

\* lines 115-118: the order of the moment that the coupling term reads
CouplingReads(n) == n - 1

\* lines 111-125: one pass of the loop over (q, ka, kb) of order dd_n
BuildDDMomentsCoupling ==
    /\ dd_pc = "coupling"
    /\ \E kb \in dd_todo :
          LET ki == KSub(dd_ka, dd_q)
              kj == KSub(kb, dd_q)
              term == CMul(CMul(dd_moments[dd_q][dd_ka][CouplingReads(dd_n)],
                                Conj(LiaBlock(dd_in, ki, dd_ka))),
                           Conj(LaiBlock(dd_in, kj, kb)))
          IN
          /\ dd_moments' = [dd_moments EXCEPT ![dd_q][kb][dd_n] =
                               CAdd(@, CMul(<<2, 0>>, term))]
          /\ dd_applied' =
                IF /\ dd_todo = {kb} /\ dd_ka + 1 = NKpts /\ dd_q + 1 = NKpts
                   /\ AfterPass("coupling").n # dd_n
                THEN {}
                ELSE dd_applied \cup {<<"coupling", dd_q, dd_ka, kb>>}
          /\ IF dd_todo # {kb}
             THEN /\ dd_todo' = dd_todo \ {kb}
                  /\ UNCHANGED <<dd_pc, dd_n, dd_q, dd_ka>>
             ELSE /\ dd_todo' = Kpts
                  /\ IF dd_ka + 1 < NKpts
                     THEN dd_ka' = dd_ka + 1 /\ UNCHANGED <<dd_pc, dd_n, dd_q>>
                     ELSE /\ dd_ka' = 0
                          /\ IF dd_q + 1 < NKpts
                             THEN dd_q' = dd_q + 1 /\ UNCHANGED <<dd_pc, dd_n>>
                             ELSE /\ dd_q' = 0
                                  /\ dd_pc' = AfterPass("coupling").pc
                                  /\ dd_n' = AfterPass("coupling").n
    /\ UNCHANGED <<dd_in, dd_first, tdavars, notDD>>

(***************************************************************************)
(* qsGW.build_static_potential of qsgw.py                                  *)
(*                                                                         *)
(* A floating-point number is [fin, v]: a finite value v, an integer in    *)
(* the unit of its array, or with fin = FALSE the inf or nan that numpy    *)
(* gives for a division by zero.  Orbital and pole energies are integers   *)
(* in units of eta.                                                        *)
(***************************************************************************)
Poles == 1..NPoles
Fin(v) == [fin |-> TRUE, v |-> v]
NotFinite == [fin |-> FALSE, v |-> 0]
\* x + y and x * y: a sum or product with inf or nan is not finite
FAdd(x, y) == IF x.fin /\ y.fin THEN Fin(x.v + y.v) ELSE NotFinite
FMul(x, y) == IF x.fin /\ y.fin THEN Fin(x.v * y.v) ELSE NotFinite

\* np.sign
Sign(x) == IF x > 0 THEN 1 ELSE IF x < 0 THEN -1 ELSE 0

\* lines 299-301: (1 / denom).real with denom = e_p - E_k - i sign(E_k) eta,
\* which is d / (d^2 + s^2), in units of 1/20
EtaWeight(ep, ek) ==
    LET d == ep - ek
        s == Sign(ek)
    IN IF d * d + s * s = 0 THEN NotFinite
       ELSE Fin((20 * d) \div (d * d + s * s))

\* lines 303-307: reg = (1 - exp(-d2p * srg)) * (dp + dq) / d2p with
\* d2p = dp^2 + dq^2, for srg = 1 and rounded to units of 1/100
SRGWeight(ep, eq, ek) ==
    LET dp == ep - ek
        dq == eq - ek
        d2p == dp * dp + dq * dq
        damping == CASE d2p = 1 -> 63 [] d2p = 2 -> 43 [] d2p = 4 -> 25
                     [] d2p = 5 -> 20 [] d2p = 8 -> 12 [] OTHER -> 0
    IN IF d2p = 0 THEN NotFinite ELSE Fin(damping * (dp + dq))

\* line 298: self.srg == 0.0
UsesEta(s) == s = 0

\* lines 301 and 308: the sum over the poles k of the einsum
RECURSIVE PoleSum(_, _)
PoleSum(f, k) == IF k > NPoles THEN Fin(0) ELSE FAdd(f[k], PoleSum(f, k + 1))

\* the systems a call is made for: orbital energies, pole energies and
\* couplings of the self-energy, and the option srg
StaticInputs ==
    [mo_energy : [Orbs -> {0, 1}], energy : [Poles -> {-1, 0, 1}],
     coupling : {[p \in Orbs |-> [k \in Poles |-> p + k - 1]],
                 [p \in Orbs |-> [k \in Poles |-> 1 + ((p * k) % 2)]]},
     srg : {0, 1}]

\* no call of build_static_potential has been made
StaticOff ==
    /\ sp_pc = "idle"
    /\ sp_in = << >>
    /\ sp_branch = None
    /\ se_qp = << >>

\* build_static_potential(mo_energy, se) is called, lines 282-297
BuildStaticPotentialEnter ==
    /\ sp_pc = "idle"
    /\ sp_in' \in StaticInputs
    /\ sp_pc' = "sp_298"
    /\ UNCHANGED <<sp_branch, se_qp, notStatic>>

\* lines 298-308: the broadening by eta or the SRG damping
BuildStaticPotentialRegularize ==
    /\ sp_pc = "sp_298"
    /\ LET e == sp_in.mo_energy
           E == sp_in.energy
           c == sp_in.coupling
           w(p, qq, k) == IF UsesEta(sp_in.srg) THEN EtaWeight(e[p], E[k])
                          ELSE SRGWeight(e[p], e[qq], E[k])
       IN se_qp' = [p \in Orbs |-> [qq \in Orbs |->
                      PoleSum([k \in Poles |->
                                 FMul(Fin(c[p][k] * c[qq][k]), w(p, qq, k))], 1)]]
    /\ sp_branch' = IF UsesEta(sp_in.srg) THEN "eta" ELSE "srg"
    /\ sp_pc' = "sp_310"
    /\ UNCHANGED <<sp_in, notStatic>>

\* lines 310-312: se_qp = 0.5 * (se_qp + se_qp.T), returned; the result is
\* kept in half the unit of the matrix it is formed from
BuildStaticPotentialSymmetrize ==
    /\ sp_pc = "sp_310"
    /\ se_qp' = [p \in Orbs |-> [qq \in Orbs |->
                    FAdd(se_qp[p][qq], se_qp[qq][p])]]
    /\ sp_pc' = "returned"
    /\ UNCHANGED <<sp_in, sp_branch, notStatic>>

(***************************************************************************)
(* The occupied and virtual orbitals of the screened interaction, as       *)
(* get_compression_metric and transform of pbc/ints.py and                 *)
(* build_dd_moments of pbc/tda.py select them.  A selection is, per        *)
(* k-point, the set i of the positions taken as occupied and the set a of  *)
(* those taken as virtual.                                                 *)
(***************************************************************************)
\* the occupations an orbital may have: empty or doubly occupied
Occupations == {0, 2}

\* ints.py lines 463-468: nocc_w, for one k-point
nocc_w(k) == Cardinality({p \in Orbs : mo_occ_w[k][p] > 0})

\* ints.py lines 68-69 and tda.py lines 106-107: the masks o > 0 and o == 0
ByOccupation(k) == [i |-> {p \in Orbs : mo_occ_w[k][p] > 0},
                    a |-> {p \in Orbs : mo_occ_w[k][p] = 0}]

\* ints.py lines 218-219 and 255-256: the slices [:nocc_w] and [nocc_w:]
ByPosition(k) == [i |-> 1..nocc_w(k), a |-> (nocc_w(k) + 1)..NMO]

\* nothing has been selected, there are no orbitals yet
OccOff ==
    /\ mo_occ_w = << >>
    /\ sel_metric = << >>
    /\ sel_transform = << >>
    /\ sel_denominator = << >>

\* get_compression_metric, lines 64-72, for the key "ia"
MetricSelects ==
    /\ mo_occ_w # << >> /\ sel_metric = << >>
    /\ sel_metric' = [k \in Kpts |-> ByOccupation(k)]
    /\ UNCHANGED <<mo_occ_w, sel_transform, sel_denominator, notOcc>>

\* transform, lines 217-220 and 254-257
TransformSelects ==
    /\ mo_occ_w # << >> /\ sel_transform = << >>
    /\ sel_transform' = [k \in Kpts |-> ByPosition(k)]
    /\ UNCHANGED <<mo_occ_w, sel_metric, sel_denominator, notOcc>>

\* build_dd_moments, lines 104-108
DenominatorSelects ==
    /\ mo_occ_w # << >> /\ sel_denominator = << >>
    /\ sel_denominator' = [k \in Kpts |-> ByOccupation(k)]
    /\ UNCHANGED <<mo_occ_w, sel_metric, sel_transform, notOcc>>

(***************************************************************************)
(* BaseKGW._gf_to_mo_energy of pbc/base.py                                 *)
(*                                                                         *)
(* A coupling is a complex number <<re, im>>.  The Green's function at the *)
(* k-point k has NPoles poles; that of index p has the energy p - k.       *)
(***************************************************************************)
Couplings == {<<1, 0>>, <<0, -1>>, <<1, 1>>}

\* gf[k].energy[p]
GfEnergy(k, p) == p - k
\* gf[k].coupling[i][p]: the table of the call, turned by k
GfCoupling(k, i, p) == ge_gf[i][((p - 1 + k) % NPoles) + 1]

\* line 168: c * c.conj(), a real number
SquaredNorm(c) == c[1] * c[1] + c[2] * c[2]

\* (mutation) the last of the largest entries is taken
ArgMax_Last(f) ==
    CHOOSE p \in DOMAIN f :
       /\ \A r \in DOMAIN f : f[r] <= f[p]
       /\ \A r \in DOMAIN f : r > p => f[r] < f[p]

\* line 168: np.argmax, the index of the first of the largest entries
ArgMax(f) ==
    CHOOSE p \in DOMAIN f :
       /\ \A r \in DOMAIN f : f[r] <= f[p]
       /\ \A r \in DOMAIN f : r < p => f[r] < f[p]

\* no call of _gf_to_mo_energy has been made
GfOff ==
    /\ ge_pc = "idle"
    /\ ge_gf = << >>
    /\ ge_k = 0
    /\ ge_i = 0
    /\ ge_mo_energy = << >>
    /\ ge_check = {}
    /\ ge_warned = {}

\* _gf_to_mo_energy(gf) is called, lines 149-166
GfToMoEnergyEnter ==
    /\ ge_pc = "idle"
    /\ ge_gf' \in [Orbs -> [Poles -> Couplings]]
    /\ ge_mo_energy' = [k \in Kpts |-> [i \in Orbs |-> 0]]       \* line 163
    /\ ge_k' = 0
    /\ ge_i' = 1
    /\ ge_check' = {}
    /\ ge_pc' = "ge_167"
    /\ UNCHANGED <<ge_warned, notGf>>

\* lines 167-170: one pass of the loop over the orbitals
GfToMoEnergyOrbital ==
    /\ ge_pc = "ge_167" /\ ge_i <= NMO
    /\ LET arg == ArgMax([p \in Poles |->
                            SquaredNorm(GfCoupling(ge_k, ge_i, p))])
       IN /\ ge_mo_energy' = [ge_mo_energy EXCEPT ![ge_k][ge_i] =
                                 GfEnergy(ge_k, arg)]
          /\ ge_check' = ge_check \cup {arg}
    /\ ge_i' = ge_i + 1
    /\ UNCHANGED <<ge_pc, ge_gf, ge_k, ge_warned, notGf>>

\* lines 172-175 and 165-166: the warning, then the next k-point or the
\* return
GfToMoEnergyCheck ==
    /\ ge_pc = "ge_167" /\ ge_i > NMO
    /\ ge_warned' = IF Cardinality(ge_check) # NMO
                    THEN ge_warned \cup {ge_k} ELSE ge_warned
    /\ IF ge_k + 1 < NKpts
       THEN ge_k' = ge_k + 1 /\ ge_i' = 1 /\ ge_check' = {}
            /\ UNCHANGED ge_pc
       ELSE ge_pc' = "returned" /\ UNCHANGED <<ge_k, ge_i, ge_check>>
    /\ UNCHANGED <<ge_gf, ge_mo_energy, notGf>>

(***************************************************************************)
(* KIntegrals.get_j and get_k of pbc/ints.py on all workers of a run       *)
(*                                                                         *)
(* Every worker runs the same call.  An array is represented by the table  *)
(* of the terms that were added into it: for buf, entry [a][b] counts the  *)
(* contraction of the block of the pair (b, a) (of (a, a) in get_j) with   *)
(* the density matrix; for the result, entry [ki][kk] counts the term of   *)
(* the k-point kk (get_j) or of the pair (ki, kk) (get_k) in vj[ki] or     *)
(* vk[ki].                                                                 *)
(***************************************************************************)
WorkerIds == 0..(w_size - 1)
\* np.zeros, np.zeros_like
ZeroTable == [a \in Kpts |-> [b \in Kpts |-> 0]]

\* kpts.loop(1, mpi=True) on worker w of n: the k-points are dealt out by
\* round robin
Shard(n, w) == {k \in Kpts : k % n = w}

\* (mutation) nothing is summed: the array of worker 0 is handed out
AllReduce_Root(x) == x[0]

\* mpi_helper.allreduce: the elementwise sum over the workers
AllReduce(x) ==
    LET RECURSIVE Total(_, _, _)
        Total(w, a, b) == IF w >= w_size THEN 0
                          ELSE x[w][a][b] + Total(w + 1, a, b)
    IN [a \in Kpts |-> [b \in Kpts |-> Total(0, a, b)]]

\* a run of 1..MaxWorkers workers, before the call
InitJK ==
    /\ w_size \in 1..MaxWorkers
    /\ w_op = [name |-> None, stored |-> FALSE]
    /\ w_pc = [w \in WorkerIds |-> "idle"]
    /\ w_kk = [w \in WorkerIds |-> 0]
    /\ w_buf = [w \in WorkerIds |-> ZeroTable]
    /\ w_out = [w \in WorkerIds |-> ZeroTable]

\* no call of a builder is in progress, in a run of one worker
BuildersOff == InitJK /\ w_size = 1

\* get_j (lines 275-283, 294-298) or get_k (331-336, 357-361) is called on
\* every worker, on the path of line 282 or 338: vj, vk and buf are zero
BuilderEnter ==
    /\ \A w \in WorkerIds : w_pc[w] = "idle"
    /\ \E name \in {"get_j", "get_k"}, stored \in BOOLEAN :
          w_op' = [name |-> name, stored |-> stored]
    /\ w_pc' = [w \in WorkerIds |-> "fill"]
    /\ UNCHANGED <<w_size, w_kk, w_buf, w_out, notBuilders>>

\* The first loop of worker w: lines 284-285 and 300-307 (get_j), 344-346
\* (get_k, stored), 362-369 (get_k, streaming, for the kk the worker is at).
\* get_j adds to buf, get_k assigns to the slice of the pair.
BuilderFill(w) ==
    /\ w_pc[w] = "fill"
    /\ LET mine == Shard(w_size, w)
           old == w_buf[w]
           new == IF w_op.name = "get_j"
                  THEN [a \in Kpts |-> [b \in Kpts |->
                          IF a = b /\ a \in mine THEN old[a][b] + 1
                          ELSE old[a][b]]]
                  ELSE IF w_op.stored
                  THEN [a \in Kpts |-> [b \in Kpts |->
                          IF b \in mine THEN 1 ELSE old[a][b]]]
                  ELSE [a \in Kpts |-> [b \in Kpts |->
                          IF a = w_kk[w] /\ b \in mine THEN 1 ELSE old[a][b]]]
       IN w_buf' = [w_buf EXCEPT ![w] = new]
    /\ w_pc' = [w_pc EXCEPT ![w] = "reduce_buf"]
    /\ UNCHANGED <<w_size, w_op, w_kk, w_out, notBuilders>>

\* lines 287, 309, 348, 371: buf = mpi_helper.allreduce(buf), which every
\* worker has to reach
BuilderReduceBuf ==
    /\ \A w \in WorkerIds : w_pc[w] = "reduce_buf"
    /\ w_buf' = [w \in WorkerIds |-> AllReduce(w_buf)]
    /\ w_pc' = [w \in WorkerIds |-> "contract"]
    /\ UNCHANGED <<w_size, w_op, w_kk, w_out, notBuilders>>

\* The second loop of worker w: lines 289-290 and 311-319 (get_j), 350-352
\* (get_k, stored), 373-381 (get_k, streaming).  The streaming get_k then
\* goes on to the next kk with a new buf (lines 360-361).
BuilderContract(w) ==
    /\ w_pc[w] = "contract"
    /\ LET mine == Shard(w_size, w)
           buf == w_buf[w]
           old == w_out[w]
           new == IF w_op.name = "get_j"
                  THEN [ki \in Kpts |-> [kk \in Kpts |->
                          IF ki \in mine THEN old[ki][kk] + buf[kk][kk]
                          ELSE old[ki][kk]]]
                  ELSE IF w_op.stored
                  THEN [ki \in Kpts |-> [kk \in Kpts |->
                          IF kk \in mine THEN old[ki][kk] + buf[kk][ki]
                          ELSE old[ki][kk]]]
                  ELSE [ki \in Kpts |-> [kk \in Kpts |->
                          IF ki \in mine /\ kk = w_kk[w]
                          THEN old[ki][kk] + buf[kk][ki]
                          ELSE old[ki][kk]]]
       IN w_out' = [w_out EXCEPT ![w] = new]
    /\ IF w_op.name = "get_k" /\ ~w_op.stored /\ w_kk[w] + 1 < NKpts
       THEN /\ w_kk' = [w_kk EXCEPT ![w] = @ + 1]
            /\ w_buf' = [w_buf EXCEPT ![w] = ZeroTable]
            /\ w_pc' = [w_pc EXCEPT ![w] = "fill"]
       ELSE /\ w_pc' = [w_pc EXCEPT ![w] = "reduce_out"]
            /\ UNCHANGED <<w_kk, w_buf>>
    /\ UNCHANGED <<w_size, w_op, notBuilders>>

\* lines 292, 321, 354, 383: the result is all-reduced, and returned (the
\* factor 1 / len(kpts) and the rotations apply to the whole of it)
BuilderReduceOut ==
    /\ \A w \in WorkerIds : w_pc[w] = "reduce_out"
    /\ w_out' = [w \in WorkerIds |-> AllReduce(w_out)]
    /\ w_pc' = [w \in WorkerIds |-> "done"]
    /\ UNCHANGED <<w_size, w_op, w_kk, w_buf, notBuilders>>

(***************************************************************************)
(* Specifications                                                          *)
(***************************************************************************)
\* no moment builder is at work
TDAOff == diagonal_se = FALSE /\ nmom_max = 0 /\ TDAIdle

\* an integral container on which nothing is called
IntsIdle ==
    /\ store_full = FALSE
    /\ compression = {}
    /\ compression_tol = 0
    /\ mpi_size = 1
    /\ mpi_rank = 0
    /\ IntsFresh

\* The solver entry points: one call on a solver object.
Init == InitQS /\ TDAOff /\ IntsIdle /\ BuildersOff /\ DDIdle /\ StaticOff /\ OccOff /\ GfOff

Next ==
    \/ QsGWKernelEnter
    \/ KernelGuard
    \/ KernelAo2mo
    \/ KernelSetup
    \/ KernelSolve0
    \/ KernelLoop
    \/ KernelStatic
    \/ KernelFockInit
    \/ KernelFock
    \/ KernelFockExit
    \/ KernelSolve
    \/ KernelCheck
    \/ KernelReturn
    \/ BaseKGWKernelEnter
    \/ BaseKGWKernelRun
    \/ BuildDDMomentsExact

vars == <<qsvars, tdavars, intsvars, jkvars, ddvars, spvars, occvars,
          gevars>>

Spec == Init /\ [][Next]_vars
\* The same behaviours, with every call that is in progress running on: each
\* step of kernel is ordinary sequential code, and the calls it makes return.
FairSpec == Spec /\ WF_vars(Next)

\* The self-energy moment builder on its own: a solver object on which
\* nothing is called, and one call of build_se_moments.
QSIdle ==
    /\ InitQS
    /\ polarizability = "drpa"
    /\ max_cycle = 0
    /\ max_cycle_qp = 0
    /\ conv_logical = "all"

InitSE == QSIdle /\ InitTDA /\ IntsIdle /\ BuildersOff /\ DDIdle /\ StaticOff /\ OccOff /\ GfOff

NextSE ==
    \/ BuildSEMomentsEnter
    \/ BuildSEMomentsConvolve
    \/ BuildSEMomentsHermitize
    \/ BuildSEMomentsReturn

SpecSE == InitSE /\ [][NextSE]_vars

\* The integral container on its own: calls of transform, get_j and get_k in
\* any order on one container.  The metric has one of two spectra per q.
InitKI == QSIdle /\ TDAOff /\ InitInts /\ BuildersOff /\ DDIdle /\ StaticOff /\ OccOff /\ GfOff

TransformCall == TransformEnter(DoFlags)
MetricEigFew == GetCompressionMetricEig(SpectraFew)

NextKI ==
    \/ TransformCall
    \/ GetCompressionMetricProd
    \/ MetricEigFew
    \/ GetCompressionMetricBcast
    \/ TransformDefaults
    \/ TransformBlock
    \/ TransformCommit
    \/ GetJEnter
    \/ GetKEnter
    \/ JKRun

SpecKI == InitKI /\ [][NextKI]_vars

\* The compression basis on its own: calls of transform that build no
\* family, so that they compute and store the basis only, with every
\* spectrum the metric may have and with a tolerance of 0 or 1.
InitMetric ==
    /\ QSIdle
    /\ TDAOff
    /\ store_full = FALSE
    /\ compression \in {{}, {"ia"}}
    /\ compression_tol \in {0, 1}
    /\ \E w \in Workers : mpi_size = w[1] /\ mpi_rank = w[2]
    /\ IntsFresh
    /\ BuildersOff
    /\ DDIdle
    /\ StaticOff /\ OccOff /\ GfOff

TransformBasisOnly ==
    TransformEnter({[do_Lpq |-> "False", do_Lpx |-> FALSE, do_Lia |-> FALSE]})
MetricEigAll == GetCompressionMetricEig(Spectra)

NextMetric ==
    \/ TransformBasisOnly
    \/ GetCompressionMetricProd
    \/ MetricEigAll
    \/ GetCompressionMetricBcast
    \/ TransformDefaults

SpecMetric == InitMetric /\ [][NextMetric]_vars

\* The Coulomb and exchange builders on all workers of a run: one call of
\* get_j or get_k, on either path.
InitBuilders == QSIdle /\ TDAOff /\ IntsIdle /\ InitJK /\ DDIdle /\ StaticOff /\ OccOff /\ GfOff

NextBuilders ==
    \/ BuilderEnter
    \/ \E w \in WorkerIds : BuilderFill(w)
    \/ BuilderReduceBuf
    \/ \E w \in WorkerIds : BuilderContract(w)
    \/ BuilderReduceOut

SpecBuilders == InitBuilders /\ [][NextBuilders]_vars

\* The density-density moment builder on its own: one call of
\* build_dd_moments for one of two systems.
InitDD ==
    /\ QSIdle /\ IntsIdle /\ BuildersOff /\ StaticOff /\ OccOff /\ GfOff
    /\ diagonal_se = FALSE /\ nmom_max \in 0..MaxMom /\ TDAIdle
    /\ dd_in \in {0, 1}
    /\ dd_pc = "idle" /\ dd_first \in {"denominator", "coupling"} /\ dd_n = 0
    /\ dd_q = 0 /\ dd_ka = 0 /\ dd_todo = {} /\ dd_moments = NoDDMoments
    /\ dd_applied = {}

NextDD ==
    \/ BuildDDMomentsEnter
    \/ BuildDDMomentsOrder0
    \/ BuildDDMomentsDenominator
    \/ BuildDDMomentsCoupling

\* as the source has it: every order starts with the denominators
InitDDAsWritten == InitDD /\ dd_first = "denominator"

SpecDD == InitDDAsWritten /\ [][NextDD]_vars
\* with the two passes of an order in either sequence
SpecDDAnyOrder == InitDD /\ [][NextDD]_vars

\* The static potential on its own: one call of build_static_potential on
\* a solver object on which nothing else is called.
InitStatic == QSIdle /\ TDAOff /\ IntsIdle /\ BuildersOff /\ DDIdle /\ StaticOff /\ OccOff /\ GfOff

NextStatic ==
    \/ BuildStaticPotentialEnter
    \/ BuildStaticPotentialRegularize
    \/ BuildStaticPotentialSymmetrize

SpecStatic == InitStatic /\ [][NextStatic]_vars

\* The selection of the occupied orbitals on its own, for every occupation
\* of the orbitals at every k-point.
InitOcc ==
    /\ QSIdle /\ TDAOff /\ IntsIdle /\ BuildersOff /\ DDIdle /\ StaticOff
    /\ GfOff
    /\ mo_occ_w \in [Kpts -> [Orbs -> Occupations]]
    /\ sel_metric = << >>
    /\ sel_transform = << >>
    /\ sel_denominator = << >>

NextOcc ==
    \/ MetricSelects
    \/ TransformSelects
    \/ DenominatorSelects

SpecOcc == InitOcc /\ [][NextOcc]_vars

\* One call of _gf_to_mo_energy on a solver object on which nothing else
\* is called.
InitGf ==
    /\ QSIdle /\ TDAOff /\ IntsIdle /\ BuildersOff /\ DDIdle /\ StaticOff
    /\ OccOff /\ GfOff

NextGf ==
    \/ GfToMoEnergyEnter
    \/ GfToMoEnergyOrbital
    \/ GfToMoEnergyCheck

SpecGf == InitGf /\ [][NextGf]_vars

(***************************************************************************)
(* Properties of the self-consistency driver                               *)
(***************************************************************************)
InQsGW == entry = "qsGW.kernel"
Terminal == pc \in {"done", "failed"}
PhasePairs == {<<phases[i], phases[i + 1]>> : i \in 1..(Len(phases) - 1)}
FailureEdges == {<<ph, "FAILED">> : ph \in {"INIT", "SOLVE_SE",
                   "BUILD_STATIC_POTENTIAL", "FOCK_LOOP", "CHECK_CONVERGENCE"}}

\* The transitions of the state machine as the specification draws it.
SpecEdges == {<<"INIT", "SOLVE_SE">>,
              <<"SOLVE_SE", "BUILD_STATIC_POTENTIAL">>,
              <<"BUILD_STATIC_POTENTIAL", "FOCK_LOOP">>,
              <<"FOCK_LOOP", "CHECK_CONVERGENCE">>,
              <<"CHECK_CONVERGENCE", "SOLVE_SE">>,
              <<"CHECK_CONVERGENCE", "DONE">>}

\* The transitions kernel makes.
CodeEdges == {<<"INIT", "SOLVE_SE">>,
              <<"SOLVE_SE", "BUILD_STATIC_POTENTIAL">>,
              <<"SOLVE_SE", "DONE">>,
              <<"BUILD_STATIC_POTENTIAL", "FOCK_LOOP">>,
              <<"FOCK_LOOP", "SOLVE_SE">>,
              <<"SOLVE_SE", "CHECK_CONVERGENCE">>,
              <<"CHECK_CONVERGENCE", "BUILD_STATIC_POTENTIAL">>,
              <<"CHECK_CONVERGENCE", "DONE">>}

\* C1 as stated: the phases follow INIT, SOLVE_SE, BUILD_STATIC_POTENTIAL,
\* FOCK_LOOP, CHECK_CONVERGENCE, then SOLVE_SE or DONE; CHECK_CONVERGENCE is
\* entered from FOCK_LOOP and every SOLVE_SE is followed by
\* BUILD_STATIC_POTENTIAL (a failure may end the run in any phase).  Stated
\* for the runs that have a budget of at least one cycle.
C1_SpecPhaseOrder ==
    InQsGW /\ max_cycle > 0 => PhasePairs \subseteq (SpecEdges \cup FailureEdges)

\* C1, amended: the phases are INIT, SOLVE_SE, and then per outer cycle
\* BUILD_STATIC_POTENTIAL, FOCK_LOOP, SOLVE_SE, CHECK_CONVERGENCE.  Only the
\* first SOLVE_SE is followed by BUILD_STATIC_POTENTIAL (or by DONE, when
\* max_cycle = 0); every later SOLVE_SE comes from FOCK_LOOP and leads to
\* CHECK_CONVERGENCE, which is entered from SOLVE_SE only; after
\* CHECK_CONVERGENCE the run goes to BUILD_STATIC_POTENTIAL (not converged,
\* budget left) or to DONE (a failure may end the run in any phase).
C1_PhaseOrder ==
    InQsGW =>
      /\ phases[1] = "INIT"
      /\ PhasePairs \subseteq (CodeEdges \cup FailureEdges)
      /\ \A i \in 2..Len(phases) :
            /\ phases[i] = "CHECK_CONVERGENCE" => phases[i - 1] = "SOLVE_SE"
            /\ phases[i] = "SOLVE_SE" /\ i > 2 => phases[i - 1] = "FOCK_LOOP"
            /\ phases[i - 1] = "SOLVE_SE" /\ i > 3
                  => phases[i] \in {"CHECK_CONVERGENCE", "FAILED"}
            /\ phases[i - 1] = "SOLVE_SE" /\ phases[i] = "DONE"
                  => i = 3 /\ max_cycle = 0
            /\ phases[i - 1] = "CHECK_CONVERGENCE" /\ i = Len(phases)
                  => IF phases[i] = "DONE" THEN conv \/ cycle = max_cycle
                     ELSE ~conv /\ cycle <= max_cycle

\* C1, witness: a run of two full cycles that ends in DONE.
C1_Witness ==
    /\ InQsGW /\ pc = "done"
    /\ phases = <<"INIT", "SOLVE_SE",
                  "BUILD_STATIC_POTENTIAL", "FOCK_LOOP", "SOLVE_SE",
                  "CHECK_CONVERGENCE",
                  "BUILD_STATIC_POTENTIAL", "FOCK_LOOP", "SOLVE_SE",
                  "CHECK_CONVERGENCE", "DONE">>

\* No local state of kernel exists yet.
NothingBuilt ==
    /\ integrals = None
    /\ ~subgw.constructed /\ subgw.calls = 0 /\ se = 0 /\ th = Unbound
    /\ mo_energy = Unbound /\ mo_coeff = Unbound /\ dm = Unbound
    /\ ~diis.created /\ ~diis_qp.created
    /\ ret = << >> /\ ~self_attrs.set

\* C2: with polarizability "drpa-exact" the qsGW kernel does nothing but
\* fail with NotImplementedError: no integrals, no solver, no orbital,
\* density-matrix or extrapolation state exist at any point of the call; and
\* TDA.build_dd_moments_exact always fails, returning nothing.
C2_ExactFailsFast ==
    /\ InQsGW /\ polarizability = "drpa-exact"
          => /\ NothingBuilt
             /\ pc \in {"k_guard", "failed"}
             /\ pc = "failed" => error = "NotImplementedError"
    /\ entry = "TDA.build_dd_moments_exact"
          => /\ NothingBuilt
             /\ pc = "failed" /\ error = "NotImplementedError"

\* C2, witness: the kernel has failed on the exact polarizability.
C2_Witness ==
    InQsGW /\ polarizability = "drpa-exact" /\ pc = "failed"

\* C3: exhausting max_cycle raises nothing: the flag returned is True exactly
\* when check_convergence returned True in the last executed cycle, and
\* False when all max_cycle cycles ran unsatisfied (max_cycle = 0 included).
C3_ConvergenceFlag ==
    InQsGW =>
      /\ error \in {None, "NotImplementedError", "SolverError"}
      /\ pc \in {"k_loop", "k_return"} /\ cycle = max_cycle => error = None
      /\ pc = "done" =>
            /\ error = None /\ ret[1] = "converged"
            /\ self_attrs.converged = (signals.called /\ signals.result)
            /\ signals.called => signals.cycle = cycle
            /\ signals.called = (cycle > 0)
            /\ ~self_attrs.converged => cycle = max_cycle

\* C3, witness: a budget of at least one cycle was used up unconverged.
C3_Witness ==
    /\ InQsGW /\ pc = "done" /\ ~self_attrs.converged
    /\ max_cycle > 0 /\ cycle = max_cycle /\ signals.called

\* C4 as stated: with conv_logical = all, converged = True is reported only
\* if in the final cycle the orbital energies, the moments and the inner
\* density matrix have all converged.  Stated for the cycles whose inner
\* loop made at least one iteration.
C4_ThreeSignals ==
    /\ InQsGW /\ pc = "done" /\ conv_logical = "all" /\ self_attrs.converged
    /\ max_cycle_qp > 0
    => signals.e_ok /\ signals.m_ok /\ signals.qp_ok

\* C5 as stated: every kernel entry point returns the 4-tuple
\* (converged, green_function, self_energy, qp_energies).
C5_FourTuple ==
    pc = "done" /\ entry \in {"qsGW.kernel", "BaseKGW.kernel"}
       => Len(ret) = 4 /\ ret[1] = "converged" /\ ret[2] = "gf"
          /\ ret[3] = "se" /\ ret[4] = "qp_energy"

\* C6: an inner Fock loop that used up max_cycle_qp iterations unconverged
\* raises nothing and leaves only conv_qp = False; the same outer cycle goes
\* on, with the orbitals of the last inner iteration, to the self-energy
\* solve, the moment update and the convergence check.
C6_InnerLoopNotFatal ==
    InQsGW =>
      /\ error \in {None, "NotImplementedError", "SolverError"}
      /\ pc = "k_fock_exit" /\ ~conv_qp
            => qp_cycle = max_cycle_qp /\ error = None
      /\ pc = "k_check" /\ ~conv_qp =>
            /\ error = None
            /\ mo_energy = IF max_cycle_qp > 0 THEN <<cycle, max_cycle_qp>>
                           ELSE mo_energy_prev
            /\ subgw.mo_energy = mo_energy /\ subgw.mo_coeff = mo_coeff
            /\ mo_coeff = mo_energy
            /\ subgw.calls = cycle + 1 /\ se = cycle + 1
            /\ th = <<"se", cycle + 1>>
      /\ pc \in {"k_loop", "k_return", "done"} /\ cycle > 0
            => signals.called /\ signals.cycle = cycle

\* C6, witness: the check of a cycle whose inner loop ran out unconverged.
C6_Witness ==
    /\ InQsGW /\ pc \in {"k_loop", "k_return"} /\ signals.called
    /\ ~signals.qp_ok /\ max_cycle_qp > 0 /\ qp_cycle = max_cycle_qp

\* C7: the kernel terminates, by convergence, by exhaustion of max_cycle or
\* by a propagated failure; it runs at most max_cycle outer cycles, at most
\* max_cycle_qp inner iterations in each, and calls the solver at most
\* max_cycle + 1 times.
C7_Resources ==
    InQsGW =>
      /\ cycle <= max_cycle /\ qp_cycle <= max_cycle_qp
      /\ Len(diis.hist) <= max_cycle /\ Len(diis_qp.hist) <= max_cycle_qp
      /\ subgw.calls <= cycle + 1 /\ subgw.calls <= max_cycle + 1
      /\ pc = "done" => error = None /\ (conv \/ cycle = max_cycle)
      /\ pc = "failed" => error # None

C7_Terminates == [](InQsGW => <>Terminal) /\ []C7_Resources

\* C7, witness: a run that used its whole budget of outer and inner steps.
C7_Witness ==
    /\ InQsGW /\ pc = "done" /\ max_cycle > 1 /\ cycle = max_cycle
    /\ max_cycle_qp > 1 /\ qp_cycle = max_cycle_qp
    /\ subgw.calls = max_cycle + 1

(***************************************************************************)
(* Properties of the self-energy moment builder                            *)
(***************************************************************************)
Slots == Kpts \X (0..nmom_max)
\* the slots the Hermiticity loop has been through
Processed(k, n) == k < herm_k \/ (k = herm_k /\ n < herm_n)
IsHermitian(M) == \A i \in Orbs, j \in Orbs : M[i][j] = Conj(M[j][i])
WithinTolerance(M) ==
    \A i \in Orbs, j \in Orbs :
       AbsSq(CSub(M[i][j], Conj(M[j][i]))) <= Atol * Atol
\* R is the mean of M and its conjugate transpose
IsMeanOf(R, M) ==
    \A i \in Orbs, j \in Orbs :
       /\ 2 * R[i][j][1] = M[i][j][1] + M[j][i][1]
       /\ 2 * R[i][j][2] = M[i][j][2] - M[j][i][2]

\* C8: build_se_moments either fails, returning nothing, when an occupied or
\* a virtual moment matrix it built differs from its conjugate transpose by
\* more than the tolerance, or it returns moments that are, for every k and
\* n, the mean of the built matrix and its conjugate transpose, and so are
\* exactly equal to their own conjugate transpose.
C8_Hermitian ==
    /\ se_pc \in {"se_herm", "returned"} =>
          /\ \A s \in Slots : Processed(s[1], s[2]) =>
                /\ IsHermitian(moments_occ[s[1]][s[2]])
                /\ IsHermitian(moments_vir[s[1]][s[2]])
          /\ built.read =>
                /\ Processed(built.k, built.n)
                /\ WithinTolerance(built.occ) /\ WithinTolerance(built.vir)
                /\ IsMeanOf(moments_occ[built.k][built.n], built.occ)
                /\ IsMeanOf(moments_vir[built.k][built.n], built.vir)
    /\ se_ret.returned =>
          /\ se_pc = "returned" /\ se_error = None
          /\ se_ret.occ = moments_occ /\ se_ret.vir = moments_vir
          /\ \A s \in Slots : /\ Processed(s[1], s[2])
                              /\ IsHermitian(se_ret.occ[s[1]][s[2]])
                              /\ IsHermitian(se_ret.vir[s[1]][s[2]])
    /\ se_pc = "failed" =>
          ~se_ret.returned /\ se_error \in {"ValueError", "NameError"}
    /\ se_error = "ValueError" <=>
          built.read /\ ~(WithinTolerance(built.occ) /\ WithinTolerance(built.vir))

\* C8, witness: moments were returned, and the slot read last held matrices
\* that were not Hermitian when they were built.
C8_Witness ==
    /\ se_ret.returned /\ built.read /\ nmom_max > 0
    /\ ~IsHermitian(built.occ) /\ ~IsHermitian(built.vir)

(***************************************************************************)
(* Properties of the integral container                                    *)
(***************************************************************************)
TransformFailedOrRunning ==
    i_op.name = "transform" /\ (i_pc # "idle" \/ i_error # None)

\* C9: a chunk that the provider flags as low-dimensional is never used:
\* the operation that reads it (the compression metric, transform, get_j,
\* get_k) ends at once with NotImplementedError and returns nothing; and
\* while transform runs and after it has failed, the families Lpq, Lpx, Lia
\* and Lai of the container are the ones it had when transform was called.
C9_LowDimensional ==
    /\ ~seen.flag_used
    /\ seen.flag_read =>
          i_pc = "idle" /\ i_error = "NotImplementedError" /\ i_ret = None
    /\ TransformFailedOrRunning => self_blocks = blocks_before

\* C9, witness: a transform on a container that already holds a basis and
\* all four families has failed on a flagged chunk in its loop over blocks.
C9_Witness ==
    /\ i_op.name = "transform" /\ i_pc = "idle" /\ seen.flag_read
    /\ i_error = "NotImplementedError"
    /\ self_rot.set
    /\ \A f \in {"Lpq", "Lpx", "Lia", "Lai"} :
          self_blocks[f].present /\ self_blocks[f].dict # {}

Magnitude(x) == IF x < 0 THEN 0 - x ELSE x
\* the eigenvectors of q whose eigenvalue is above the tolerance
KeptOf(qq) ==
    {i \in 1..NauxFull : Magnitude(eigs[qq][i]) > compression_tol}

\* C10: for every q the stored basis consists of exactly the eigenvectors
\* whose eigenvalue has a magnitude strictly above compression_tol; when
\* these are all naux_full of them the basis of q is None as the metric
\* returns it (the identity once transform has gone on); and naux is, for
\* every q, the number of kept eigenvectors where q was compressed and naux_full where it was not, or where no basis
\* exists.
C10_CompressionBasis ==
    /\ ~self_rot.set => \A qq \in Kpts : naux(qq) = NauxFull
    /\ self_rot.set => \A qq \in Kpts :
          IF Cardinality(KeptOf(qq)) = NauxFull
          THEN /\ self_rot.at[qq] =
                     (IF i_pc = "t_132" /\ rot # NoRot.at THEN RotNone
                      ELSE RotEye)
               /\ naux(qq) = NauxFull
          ELSE /\ self_rot.at[qq] = [kind |-> "vecs", kept |-> KeptOf(qq)]
               /\ naux(qq) = Cardinality(KeptOf(qq))

\* C10, witness: with a tolerance of 1, a basis was returned that is None
\* for one q and, for another q, keeps the eigenvector of eigenvalue -2 and
\* drops the one of eigenvalue 1.
C10_Witness ==
    /\ self_rot.set /\ compression_tol = 1 /\ i_pc = "t_132"
    /\ \E qa \in Kpts, qb \in Kpts :
          /\ self_rot.at[qa] = RotNone
          /\ eigs[qb][1] = -2 /\ eigs[qb][NauxFull] = 1
          /\ self_rot.at[qb].kind = "vecs" /\ 1 \in self_rot.at[qb].kept
          /\ naux(qb) < NauxFull /\ naux(qb) > 0

\* C11 as stated: with compression enabled and a tolerance of 0, the basis
\* of every q is "no truncation" whatever the eigenvalues of the metric are:
\* nothing is discarded and naux[q] is the full auxiliary dimension.
C11_NoTruncation ==
    self_rot.set /\ compression # {} /\ compression_tol = 0
       => \A qq \in Kpts : naux(qq) = NauxFull

\* C11, amended: with compression enabled and a tolerance of 0, the basis of
\* q discards exactly the eigenvectors whose eigenvalue is 0 and keeps every
\* other one, of either sign; naux[q] is the number of non-zero eigenvalues,
\* so that nothing is truncated at q if and only if the metric at q has no
\* eigenvalue equal to 0.
C11_ZeroTolerance ==
    self_rot.set /\ compression # {} /\ compression_tol = 0
       => \A qq \in Kpts :
             LET nonzero == {i \in 1..NauxFull : eigs[qq][i] # 0} IN
             /\ naux(qq) = Cardinality(nonzero)
             /\ self_rot.at[qq].kind = "vecs" => self_rot.at[qq].kept = nonzero
             /\ self_rot.at[qq].kind \in {"None", "eye"} <=> nonzero = 1..NauxFull

\* C11, witness: with a tolerance of 0 a basis was stored that truncates
\* nothing at a q whose eigenvalues are -2 and 1, and discards one vector at
\* a q that has the eigenvalue 0.
C11_Witness ==
    /\ self_rot.set /\ compression # {} /\ compression_tol = 0
    /\ \E qa \in Kpts, qb \in Kpts :
          /\ eigs[qa][1] = -2 /\ eigs[qa][NauxFull] = 1
          /\ \A i \in 1..NauxFull : eigs[qa][i] # 0
          /\ naux(qa) = NauxFull
          /\ eigs[qb][1] = 0 /\ eigs[qb][NauxFull] = 1
          /\ naux(qb) < NauxFull

\* C12: the compression basis has one outcome on all workers.  A worker
\* other than worker 0 diagonalizes and truncates nothing: until the
\* broadcast of q reaches it, its entry for q is an empty placeholder.  When
\* the operation has returned, every worker, whatever its rank, holds for
\* every q what worker 0 derived from the eigenvalues it obtained: the same
\* kept eigenvectors, and the same decision between None and a rotation.
C12_CollectiveBasis ==
    /\ mpi_rank # 0 /\ i_pc \in {"m_95", "m_106"}
          => \A qq \in Kpts :
                (i_pc = "m_95" \/ qq >= loop_q) => rot[qq] \in {RotUnset, RotEmpty}
    /\ mpi_rank # 0 /\ i_pc = "m_106"
          => \A qq \in Kpts : qq >= loop_q => rot[qq] = RotEmpty
    /\ self_rot.set
          => \A qq \in Kpts :
                LET atRoot == [kind |-> "vecs", kept |-> KeptOf(qq)] IN
                IF Cardinality(atRoot.kept) = NauxFull
                THEN self_rot.at[qq].kind \in {"None", "eye"}
                ELSE self_rot.at[qq] = atRoot

\* C12, witness: a worker of rank 1 has returned from the operation with a
\* basis that is None at one q and a proper rotation at another.
C12_Witness ==
    /\ mpi_size = 2 /\ mpi_rank = 1 /\ self_rot.set /\ i_pc = "t_132"
    /\ \E qa \in Kpts, qb \in Kpts :
          /\ self_rot.at[qa] = RotNone
          /\ self_rot.at[qb].kind = "vecs"
          /\ self_rot.at[qb].kept # {}

\* C13: in the inner Fock loop, after every diagonalization all workers hold
\* one orbital rotation, one set of orbital coefficients and one density
\* matrix, those of worker 0: the effective Fock matrix and the eigenvectors
\* were both broadcast in that iteration before the orbitals were updated.
C13_SharedOrbitals ==
    InQsGW /\ qp_cycle >= 1 /\ pc \in {"k_fock", "k_fock_exit", "k_solve"}
       => /\ held.fock_eff = "same"
          /\ held.u = "same"
          /\ held.mo_coeff = "same"
          /\ held.dm = "same"

\* C13, witness: the second iteration of an inner loop has diagonalized.
C13_Witness ==
    /\ InQsGW /\ pc = "k_fock" /\ qp_cycle = 2 /\ cycle = 2
    /\ held.u = "same" /\ held.dm = "same"

C15_StreamingAgrees ==
    /\ i_pc = "idle" /\ i_op.name \in {"get_j", "get_k"}
    /\ ~store_full /\ ~seen.flag_read
    => /\ i_error = None
       /\ i_ret = (IF i_op.name = "get_j" THEN "vj" ELSE "vk")

(***************************************************************************)
(* Properties of the density-density moments                               *)
(***************************************************************************)
\* the sum of f over the k-points
RECURSIVE SumFrom(_, _)
SumFrom(f, k) == IF k >= NKpts THEN <<0, 0>> ELSE CAdd(f[k], SumFrom(f, k + 1))

\* The moment the recursion defines, in units of nkpts^-(n+1): order 0 is
\* Lia[kb - q, kb]; order n is order n - 1 times nkpts times the energy
\* difference, plus twice the sum over ka of the coupling products.
RECURSIVE Recursion(_, _, _)
Recursion(qq, kb, n) ==
    IF n = 0 THEN LiaBlock(dd_in, KSub(kb, qq), kb)
    ELSE CAdd(CMul(Recursion(qq, kb, n - 1),
                   <<NKpts * (EnergyVir(dd_in, kb)
                              - EnergyOcc(dd_in, KSub(kb, qq))), 0>>),
              CMul(<<2, 0>>,
                   SumFrom([ka \in Kpts |->
                              CMul(CMul(Recursion(qq, ka, n - 1),
                                        Conj(LiaBlock(dd_in, KSub(ka, qq), ka))),
                                   Conj(LaiBlock(dd_in, KSub(kb, qq), kb)))],
                           0)))

\* C16: when build_dd_moments returns, every entry (q, kb, n), n in
\* 0..nmom_max, is what the recursion gives: Lia[kb - q, kb] / nkpts at
\* order 0 and, at order n, the order n - 1 entry times (virtual energy at kb
\* minus occupied energy at kb - q) plus 2 / nkpts times the sum over ka of
\* moment(q, ka, n - 1) . Lia[ka - q, ka]^dagger . conj(Lai[kb - q, kb]);
\* while it runs, no tuple is handled twice and the orders below the one in
\* progress are complete.
C16_Recursion ==
    /\ dd_pc = "done"
         => \A qq \in Kpts, kb \in Kpts, n \in 0..nmom_max :
               dd_moments[qq][kb][n] = Recursion(qq, kb, n)
    /\ dd_pc \in {"denominator", "coupling"}
         => \A qq \in Kpts, kb \in Kpts, n \in 0..(dd_n - 1) :
               dd_moments[qq][kb][n] = Recursion(qq, kb, n)
    /\ dd_pc = "done" /\ nmom_max > 0
         => Cardinality(dd_applied) = NKpts * NKpts + NKpts * NKpts * NKpts

\* C16, witness: a call with nmom_max >= 1 has returned, and its moments of
\* order 1 differ between two k-points and from the moments of order 0.
C16_Witness ==
    /\ dd_pc = "done" /\ nmom_max >= 1 /\ dd_first = "denominator"
    /\ dd_moments[1][0][1] # dd_moments[1][1][1]
    /\ dd_moments[1][0][1] # dd_moments[1][0][0]
    /\ dd_moments[1][0][1] # <<0, 0>>

\* what the tuples handled so far have added to entry (q, kb) of the order in
\* progress, each taken with the complete moments of the order below
AppliedTo(qq, kb) ==
    LET n == dd_n
        d == <<NKpts * (EnergyVir(dd_in, kb) - EnergyOcc(dd_in, KSub(kb, qq))), 0>>
        denominator == IF <<"denominator", qq, 0, kb>> \in dd_applied
                       THEN CMul(Recursion(qq, kb, n - 1), d)
                       ELSE <<0, 0>>
        coupling == [ka \in Kpts |->
                       IF <<"coupling", qq, ka, kb>> \in dd_applied
                       THEN CMul(<<2, 0>>,
                              CMul(CMul(Recursion(qq, ka, n - 1),
                                        Conj(LiaBlock(dd_in, KSub(ka, qq), ka))),
                                   Conj(LaiBlock(dd_in, KSub(kb, qq), kb))))
                       ELSE <<0, 0>>]
    IN CAdd(denominator, SumFrom(coupling, 0))

\* C17: the moments do not depend on the order in which the pairs and
\* triples are handled, nor on which of the two passes of an order comes
\* first: at every point of the call an entry of the order in progress is
\* the sum of what the tuples handled so far contribute, each contribution
\* computed from the complete moments of the order below, so that the
\* returned moments are the same for every sequence.
C17_OrderIrrelevant ==
    /\ dd_pc \in {"denominator", "coupling", "done"} /\ dd_n >= 1
         => \A qq \in Kpts, kb \in Kpts :
               dd_moments[qq][kb][dd_n] = AppliedTo(qq, kb)
    /\ dd_pc = "done"
         => \A qq \in Kpts, kb \in Kpts, n \in 0..nmom_max :
               dd_moments[qq][kb][n] = Recursion(qq, kb, n)

\* C17, witness: a call that took the coupling pass first has returned, and
\* so the coupling pass of order 1 ran on entries the denominators had not
\* been applied to.
C17_Witness ==
    /\ dd_pc = "done" /\ nmom_max >= 1 /\ dd_first = "coupling"
    /\ dd_moments[1][0][1] # <<0, 0>>
    /\ <<"denominator", 1, 0, 0>> \in dd_applied
    /\ <<"coupling", 1, 2, 0>> \in dd_applied

(***************************************************************************)
(* Properties of the self-energy moments, continued                        *)
(***************************************************************************)
\* C18 as stated: with diagonal_se = True build_se_moments completes and
\* returns, for every k and n, occupied and virtual matrices that are
\* diagonal.  Stated for the calls that the Hermiticity test does not stop.
C18_DiagonalMode ==
    diagonal_se /\ se_pc \in {"failed", "returned"} /\ se_error # "ValueError"
       => /\ se_ret.returned
          /\ \A s \in Slots, i \in Orbs, j \in Orbs :
                i # j => /\ se_ret.occ[s[1]][s[2]][i][j] = <<0, 0>>
                         /\ se_ret.vir[s[1]][s[2]][i][j] = <<0, 0>>

(***************************************************************************)
(* Properties of the self-consistency driver, continued                    *)
(***************************************************************************)
\* C19 as stated: when a (hole, particle) moments tuple is passed to the
\* kernel, the outer loop is entered with those moments as the initial
\* hole and particle moments; when none is passed, with the moments of the
\* self-energy of the initial solve.
C19_MomentsGuess ==
    InQsGW /\ pc = "k_loop" /\ cycle = 0
       => th = (IF args.moments = "given" THEN <<"moments">> ELSE <<"se", 1>>)

\* C20 as stated: for every self-energy and every set of orbital energies,
\* under both regularizations, build_static_potential returns a real matrix
\* equal to its transpose; the broadening by eta is used exactly when srg
\* is 0, the SRG damping for every other srg.
C20_StaticSymmetric ==
    sp_pc = "returned"
       => /\ \A p \in Orbs, qq \in Orbs :
                se_qp[p][qq].fin /\ se_qp[p][qq] = se_qp[qq][p]
          /\ sp_branch = "eta" <=> sp_in.srg = 0
          /\ sp_branch = "srg" <=> sp_in.srg # 0

\* what the history of an extrapolation object holds after n updates with
\* the vectors of the given kind in outer cycle c (0: one per outer cycle)
HistoryOf(kind, c, n) ==
    [i \in 1..n |-> IF c = 0 THEN <<kind, i, 0>> ELSE <<kind, c, i>>]

\* C21: the kernel keeps two separate extrapolation histories.  That of the
\* static potential is created once per run and holds exactly one update
\* per outer cycle; that of the inner Fock loop is created empty at the
\* start of the inner loop of every outer cycle, holds exactly one update
\* per inner iteration of that cycle and nothing of an earlier cycle; no
\* vector of one is in the other; and neither is part of what the call
\* stores or returns.
C21_SeparateHistories ==
    InQsGW =>
      /\ diis.hist = HistoryOf("se_qp", 0,
                               IF pc = "k_static" THEN cycle - 1 ELSE cycle)
      /\ diis_qp.hist = IF diis_qp.created
                        THEN HistoryOf("fock_eff",
                                       IF pc \in {"k_static", "k_fock_init"}
                                       THEN cycle - 1 ELSE cycle, qp_cycle)
                        ELSE << >>
      /\ cycle > 0 => diis.created
      /\ pc = "done" => /\ ret = QsGWKernelResult
                        /\ DOMAIN self_attrs
                             = {"set", "converged", "gf", "se", "qp_energy"}

\* C21, witness: the first inner iteration of the second outer cycle, after
\* a first cycle of two inner iterations.
C21_Witness ==
    /\ InQsGW /\ pc \in {"k_fock", "k_fock_exit"} /\ cycle = 2 /\ qp_cycle = 1
    /\ mo_energy_prev = <<1, 2>>
    /\ Len(diis.hist) = 2 /\ Len(diis_qp.hist) = 1

\* C22 as stated: get_k with the Ewald option completes, unless the
\* provider's streams or a missing stored block stop it, and returns the
\* exchange matrix plus the Ewald term made of the caller's density matrix,
\* in both bases and on both paths.
C22_EwaldFromCallersDM ==
    [][(/\ i_pc = "jk_run" /\ i_op.name = "get_k" /\ i_op.ewald
        /\ i_error' \notin {"NotImplementedError", "ValueError", "KeyError"})
          => i_error' = None /\ i_ret' = "vk+ew(dm)"]_vars

\* the keys of a dictionary of blocks
KeysOf(d) == {x.key : x \in d}

\* C23: on a single worker, a transform that builds the Lia family stores
\* exactly one Lia block and one Lai block for every ordered pair (ki, kj)
\* of mesh points; Lia[ki, kj] is compressed with the rotation of the
\* transfer q = kj - ki and Lai[ki, kj] with that of -q, although the loop
\* variable q is overwritten inside the loop over ki; the two families have
\* the same keys.
C23_LiaLaiPairs ==
    (mpi_size = 1 /\ self_blocks.Lia.present) =>
      LET lia == self_blocks.Lia.dict
          lai == self_blocks.Lai.dict
      IN /\ self_blocks.Lai.present
         /\ KeysOf(lia) = Kpts \X Kpts /\ KeysOf(lai) = KeysOf(lia)
         /\ Cardinality(lia) = NKpts * NKpts
         /\ Cardinality(lai) = NKpts * NKpts
         /\ \A x \in lia : x.q = KSub(x.key[2], x.key[1]) /\ x.src = x.key
         /\ \A x \in lai : /\ x.q = KNeg(KSub(x.key[2], x.key[1]))
                           /\ x.src = <<x.key[2], x.key[1]>>

\* C23, witness: a single worker has built the family with a basis that
\* truncates at a transfer which is not its own inverse.
C23_Witness ==
    /\ mpi_size = 1 /\ self_blocks.Lia.present /\ i_pc = "idle"
    /\ \E qq \in Kpts : KNeg(qq) # qq /\ self_rot.at[qq].kind = "vecs"

\* C24 as stated: for any number of workers, after transform a worker holds
\* every block that the moment builders read on it: Lia[k - q, k] and
\* Lai[k - q, k] for all pairs (q, k), and Lpx[k, k - q].
C24_BuildersFindBlocks ==
    /\ self_blocks.Lia.present =>
         \A qq \in Kpts, k \in Kpts :
            /\ <<KSub(k, qq), k>> \in KeysOf(self_blocks.Lia.dict)
            /\ <<KSub(k, qq), k>> \in KeysOf(self_blocks.Lai.dict)
    /\ self_blocks.Lpx.present =>
         \A qq \in Kpts, k \in Kpts :
            <<k, KSub(k, qq)>> \in KeysOf(self_blocks.Lpx.dict)

\* C25 as stated: the basis of a transfer q is applied by transform to
\* exactly the pairs (ki, kj) whose blocks get_compression_metric
\* accumulated into the metric of q, for every mesh and every q.
C25_SameConvention ==
    (self_rot.set /\ compression # {}) =>
      LET metric == ProdAfter(Len(MetricPairs)) IN
      /\ \A x \in self_blocks.Lia.dict : x.src \in metric[x.q]
      /\ \A x \in self_blocks.Lai.dict : x.src \in metric[x.q]
      /\ \A x \in self_blocks.Lpx.dict : x.src \in metric[x.q]

\* C26 as stated: for every assignment of compressed ranks to the transfers,
\* each Lai block is allocated by transform with the auxiliary dimension of
\* the contributions accumulated into it, and the contractions over the
\* auxiliary index in the moment builders pair equal dimensions: the rows
\* of Lia[ki, kj] and of Lai[ki, kj], which the coupling term contracts
\* through the moment of q = kj - ki, are those of the rotation of q.
C26_DimensionsAgree ==
    /\ (i_pc = "t_152" /\ i_op.do_Lia)
          => naux(q) = LastDim(Rot(InverseTransfer(q)))
    /\ \A x \in self_blocks.Lai.dict : x.rows = x.added
    /\ \A x \in self_blocks.Lia.dict, y \in self_blocks.Lai.dict :
          x.key = y.key => x.rows = y.added

\* C28 as stated: transform does not change the stored compression basis:
\* no step of a call turns a stored None into anything else or changes a
\* stored rotation, and the call replaces only the families that were
\* requested.
C28_BasisUntouched ==
    [][/\ self_rot.set =>
            /\ self_rot'.set
            /\ \A k \in Kpts : self_rot'.at[k] = self_rot.at[k]
       /\ i_pc = "t_265" =>
            /\ i_op.do_Lpq # "True" => self_blocks'.Lpq = self_blocks.Lpq
            /\ ~i_op.do_Lpx => self_blocks'.Lpx = self_blocks.Lpx
            /\ ~i_op.do_Lia => /\ self_blocks'.Lia = self_blocks.Lia
                               /\ self_blocks'.Lai = self_blocks.Lai]_vars

(***************************************************************************)
(* Properties of the orbital selections and of the quasiparticle energies  *)
(***************************************************************************)
\* C27 as stated: at every k-point the orbitals that transform takes as
\* occupied and as virtual by position are the orbitals that
\* get_compression_metric and the energy denominators of build_dd_moments
\* take by occupation, for every occupation vector.
C27_SameOrbitals ==
    /\ (sel_transform # << >> /\ sel_metric # << >>)
          => sel_transform = sel_metric
    /\ (sel_transform # << >> /\ sel_denominator # << >>)
          => sel_transform = sel_denominator
    /\ (sel_metric # << >> /\ sel_denominator # << >>)
          => sel_metric = sel_denominator

\* the poles of the k-point k whose squared coupling to the orbital i is
\* the largest
BestPoles(k, i) ==
    {p \in Poles : \A r \in Poles :
        SquaredNorm(GfCoupling(k, i, r)) <= SquaredNorm(GfCoupling(k, i, p))}

\* C29: _gf_to_mo_energy returns, for every k-point and every orbital, the
\* energy of the first of the poles at k whose squared coupling to the
\* orbital is the largest; where two orbitals of a k-point select the same
\* pole a warning is logged, and the energies are returned all the same.
C29_BestPoleEnergies ==
    ge_pc = "returned" =>
      /\ \A k \in Kpts, i \in Orbs :
            \E p \in BestPoles(k, i) :
               /\ \A r \in BestPoles(k, i) : p <= r
               /\ ge_mo_energy[k][i] = GfEnergy(k, p)
      /\ \A k \in Kpts :
            k \in ge_warned <=>
              (\E i \in Orbs, j \in Orbs :
                  /\ i # j
                  /\ ge_mo_energy[k][i] = ge_mo_energy[k][j])

\* C29, witness: a call has returned after a warning at a k-point where
\* an orbital has two poles of the same, largest squared coupling.
C29_Witness ==
    /\ ge_pc = "returned"
    /\ \E k \in ge_warned, i \in Orbs : Cardinality(BestPoles(k, i)) > 1
=============================================================================
